---- MODULE Spec2Model ----
(***************************************************************************)
(* Model of the promethia_v2 backend: the workout normalizer               *)
(* (core/event_normalization.py), the two training_data validators         *)
(* (core/events.py, core/serializers.py), the unified event-creation       *)
(* dispatcher (core/serializers.py) and the duration parser.               *)
(*                                                                         *)
(* JSON values are tagged: a scalar is [t, n, s] with t the Python type,   *)
(* a list is [t |-> "list", items |-> <<...>>], a dict is a function from  *)
(* its keys (strings) to values, so that `k in d` is k \in DOMAIN d.       *)
(***************************************************************************)
EXTENDS Integers, Sequences, FiniteSets, TLC

VARIABLES
  blocks,            \* the UI blocks of the request (trainingBlocks)
  training_data,     \* the workout structure under validation
  model_result,      \* outcome of Training.clean on training_data
  serializer_result, \* outcome of TrainingSerializer.validate_training_data
  pc,                \* position in the pipeline of the running specification
  assignments,       \* CoachAssignment table: row [mentee, coach, is_active]
                     \* -> number of copies of it (rows differ by id only)
  events,            \* persisted Training / Race / CustomEvent rows
  request,           \* the last request on events: [actor, data, path]
  response,          \* the response to it
  value,             \* the duration string given to parse_minutes_duration
  parsed,            \* its result
  calls,             \* add_coach_access calls between check and create
  result,            \* what the last coach-assignment call returned
  users,             \* ids of the registered accounts.User rows
  athletic_profiles, \* AthleticProfile rows: [user, experience_years]
  professional_profiles,  \* ProfessionalProfile rows, likewise
  achievements,      \* Achievement / Certification / CoachAchievement rows
  current_year,      \* datetime.now().year
  email_tasks        \* the tasks submitted to _email_executor

vars == <<blocks, training_data, model_result, serializer_result, pc,
          assignments, events, request, response, value, parsed,
          calls, result, users, athletic_profiles, professional_profiles,
          achievements, current_year, email_tasks>>

normVars == <<blocks, training_data, model_result, serializer_result>>
eventVars == <<assignments, events, request, response>>
parseVars == <<value, parsed>>
profileVars == <<users, athletic_profiles, professional_profiles>>
coachVars == <<calls, result>>
accountVars == <<achievements, current_year, email_tasks>>

-----------------------------------------------------------------------------
(* Bounds of the model.                                                    *)

\* UI blocks in one request, children included.
MaxBlocks == 4
\* Persisted events.
MaxEvents == 1
\* The year the clock starts in, and the years it advances.
StartYear == 2026
MaxYears == 1
\* Persisted achievement and certification rows.
MaxAchievements == 2
\* Email tasks submitted to the executor.
MaxEmails == 2
\* add_coach_access requests in progress at the same time.
MaxCalls == 2
\* Persisted events when every creation path is open.
MaxRecords == 2
\* Characters appended to a duration string.
MaxLen == 4

-----------------------------------------------------------------------------
(* Python values.                                                          *)

None == [t |-> "none", n |-> 0, s |-> ""]
StrV(s) == [t |-> "str", n |-> 0, s |-> s]
IntV(n) == [t |-> "int", n |-> n, s |-> ""]
FloatV(n) == [t |-> "float", n |-> n, s |-> ""]
ListV(items) == [t |-> "list", items |-> items]
EmptyDict == [k \in {} |-> 0]
ValueError == [t |-> "error", n |-> 0, s |-> "ValueError"]
OverflowError == [t |-> "error", n |-> 0, s |-> "OverflowError"]
\* float('nan'), float('inf'), float('-inf')
NaN == [t |-> "float", n |-> 0, s |-> "nan"]
Inf == [t |-> "float", n |-> 0, s |-> "inf"]
NegInf == [t |-> "float", n |-> 0, s |-> "-inf"]

\* dict.get(k)
Get(d, k) == IF k \in DOMAIN d THEN d[k] ELSE None

\* bool(v)
Truthy(v) ==
  CASE v.t = "none" -> FALSE
    [] v.t = "str" -> v.s # ""
    [] v.t \in {"int", "float"} -> v.n # 0
    [] v.t = "list" -> v.items # <<>>
    [] v.t = "datetime" -> TRUE

\* a or b
PyOr(a, b) == IF Truthy(a) THEN a ELSE b

\* isinstance(v, (int, float))
IsNumber(v) == v.t \in {"int", "float"}

\* The numeric string literals of the model and their values: float(s) and
\* int(s) of any other string raise ValueError.
NumericLiteral ==
  [k \in {"0", "1", "2", "3", "5", "9", "10", "90", "400", "-5", "80"} |->
     CASE k = "0" -> 0 [] k = "1" -> 1 [] k = "2" -> 2 [] k = "3" -> 3
       [] k = "5" -> 5 [] k = "9" -> 9
       [] k = "10" -> 10 [] k = "90" -> 90 [] k = "400" -> 400
       [] k = "-5" -> 0 - 5 [] k = "80" -> 80]

\* float(value)
FloatOf(v) ==
  CASE IsNumber(v) -> FloatV(v.n)
    [] v.t = "str" ->
         IF v.s \in DOMAIN NumericLiteral THEN FloatV(NumericLiteral[v.s])
         ELSE ValueError
    [] OTHER -> ValueError

\* int(value)
IntOf(v) ==
  CASE IsNumber(v) -> IntV(v.n)
    [] v.t = "str" ->
         IF v.s \in DOMAIN NumericLiteral THEN IntV(NumericLiteral[v.s])
         ELSE ValueError
    [] OTHER -> ValueError

\* s.lower() on the labels of the model.
Lower(s) ==
  CASE s = "HR" -> "hr"
    [] s = "Min" -> "min"
    [] s = "Warmup" -> "warmup"
    [] OTHER -> s

\* s.strip() on the labels of the model.
Strip(s) ==
  CASE s = " Min " -> "Min"
    [] s = " km" -> "km"
    [] OTHER -> s

\* s.strip().lower()
StripLower(s) == Lower(Strip(s))

\* s.title() on the block types of the model.
Title(s) ==
  CASE s = "warmup" -> "Warmup"
    [] s = "cooldown" -> "Cooldown"
    [] s = "interval" -> "Interval"
    [] s = "rest" -> "Rest"
    [] s = "note" -> "Note"
    [] OTHER -> s

-----------------------------------------------------------------------------
(* Unit and intensity mapping.                                             *)

DURATION_UNIT_MAP ==
  [min |-> "minutes", mins |-> "minutes", minute |-> "minutes",
   minutes |-> "minutes", sec |-> "seconds", secs |-> "seconds",
   second |-> "seconds", seconds |-> "seconds", hr |-> "hours",
   hrs |-> "hours", hour |-> "hours", hours |-> "hours"]

DISTANCE_UNIT_MAP ==
  [m |-> "meters", meter |-> "meters", meters |-> "meters",
   km |-> "kilometers", k |-> "kilometers", kilometer |-> "kilometers",
   kilometers |-> "kilometers"]

INTENSITY_MAP ==
  [heart_rate |-> "HR", hr |-> "HR", mas |-> "MAS", fpp |-> "FPP",
   css |-> "CSS"]

map_duration_unit(unit) ==
  IF ~Truthy(unit) THEN None
  ELSE LET unit_key == StripLower(unit.s)
       IN IF unit_key \in DOMAIN DURATION_UNIT_MAP
          THEN StrV(DURATION_UNIT_MAP[unit_key]) ELSE None

map_distance_unit(unit) ==
  IF ~Truthy(unit) THEN None
  ELSE LET unit_key == StripLower(unit.s)
       IN IF unit_key \in DOMAIN DISTANCE_UNIT_MAP
          THEN StrV(DISTANCE_UNIT_MAP[unit_key]) ELSE None

map_intensity_unit(unit) ==
  IF ~Truthy(unit) THEN None
  ELSE LET unit_key == StripLower(unit.s)
       IN IF unit_key \in DOMAIN INTENSITY_MAP
          THEN StrV(INTENSITY_MAP[unit_key]) ELSE unit

\* Mutant of safe_positive_number: the sign is not looked at.
safe_number(v) ==
  IF v = None \/ v = StrV("") \/ v = StrV("null") THEN None
  ELSE IF FloatOf(v) = ValueError THEN None ELSE FloatOf(v)

safe_positive_number(v) ==
  IF v = None \/ v = StrV("") \/ v = StrV("null") THEN None
  ELSE LET number == FloatOf(v)
       IN IF number = ValueError THEN None
          ELSE IF number.n > 0 THEN number ELSE None

\* Mutant of ensure_positive_int: the sign is not looked at.
ensure_int(v, default) ==
  IF IntOf(v) = ValueError THEN IntV(default) ELSE IntOf(v)

ensure_positive_int(v, default) ==
  LET number == IntOf(v)
  IN IF number = ValueError THEN IntV(default)
     ELSE IF number.n > 0 THEN number ELSE IntV(default)

-----------------------------------------------------------------------------
(* normalize_training_blocks: one step per block of the input, folded over *)
(* the accumulator [training_data, intervals, rest_periods].               *)

block_type_of(block) == Lower(PyOr(Get(block, "type"), StrV("")).s)

\* The optional intensity and zone_type of a child work phase.
work_intensity(child) ==
  LET child_intensity == Get(child, "intensity")
      child_zone_type == map_intensity_unit(Get(child, "intensityUnit"))
  IN IF child_intensity # None
     THEN [intensity |-> child_intensity]
          @@ (IF Truthy(child_zone_type)
              THEN [zone_type |-> child_zone_type] ELSE EmptyDict)
     ELSE EmptyDict

\* One iteration of the loop over the children of a complex interval.
normalize_child(child, sub_intervals) ==
  LET child_type == block_type_of(child)
  IN IF child_type = "interval"
     THEN LET child_interval_type ==
                PyOr(Get(child, "intervalType"), StrV("time"))
              is_time == child_interval_type = StrV("time")
              child_duration_value ==
                IF is_time THEN Get(child, "duration")
                ELSE Get(child, "distance")
              child_duration_numeric ==
                safe_positive_number(child_duration_value)
              child_unit ==
                IF is_time THEN map_duration_unit(Get(child, "durationUnit"))
                ELSE map_distance_unit(Get(child, "distanceUnit"))
              work_payload ==
                [name |-> PyOr(Get(child, "name"), StrV("Work")),
                 type |-> child_interval_type,
                 duration_or_distance |-> child_duration_numeric,
                 unit |-> PyOr(child_unit,
                               IF is_time THEN StrV("minutes")
                               ELSE StrV("meters"))]
                @@ work_intensity(child)
          IN IF Truthy(child_duration_numeric)
             THEN Append(sub_intervals, [work |-> work_payload])
             ELSE sub_intervals
     ELSE IF child_type = "rest"
     THEN LET child_duration_numeric ==
                safe_positive_number(Get(child, "duration"))
              rest_payload ==
                [name |-> PyOr(Get(child, "name"), StrV("Rest")),
                 duration |-> child_duration_numeric,
                 unit |-> PyOr(map_duration_unit(Get(child, "durationUnit")),
                               StrV("seconds"))]
          IN IF Truthy(child_duration_numeric) /\ sub_intervals # <<>>
             THEN [sub_intervals EXCEPT ![Len(sub_intervals)] =
                     [rest |-> rest_payload] @@ @]
             ELSE sub_intervals
     ELSE sub_intervals

\* Mutant of normalize_children: rest children are passed over.
RECURSIVE normalize_children_without_rest(_, _)
normalize_children_without_rest(children, sub_intervals) ==
  IF children = <<>> THEN sub_intervals
  ELSE normalize_children_without_rest(
         Tail(children),
         IF block_type_of(Head(children)) = "rest" THEN sub_intervals
         ELSE normalize_child(Head(children), sub_intervals))

RECURSIVE normalize_children(_, _)
normalize_children(children, sub_intervals) ==
  IF children = <<>> THEN sub_intervals
  ELSE normalize_children(Tail(children),
                          normalize_child(Head(children), sub_intervals))

\* The payload of an interval block without children.
simple_interval(block, name) ==
  LET duration_value == PyOr(Get(block, "duration"), Get(block, "distance"))
      duration_unit == map_duration_unit(Get(block, "durationUnit"))
      interval_type == PyOr(Get(block, "intervalType"), StrV("time"))
      is_time == interval_type = StrV("time")
      interval_unit ==
        IF is_time THEN duration_unit
        ELSE map_distance_unit(Get(block, "distanceUnit"))
  IN [name |-> name,
      type |-> interval_type,
      duration_or_distance |-> safe_positive_number(duration_value),
      unit |-> PyOr(interval_unit,
                    IF is_time THEN StrV("minutes") ELSE StrV("meters")),
      repetitions |-> ensure_positive_int(Get(block, "repetitions"), 1)]

\* One iteration of the loop over the blocks.
normalize_block(block, acc) ==
  LET block_type == block_type_of(block)
      name == PyOr(PyOr(Get(block, "name"), StrV(Title(block_type))),
                   StrV("Segment"))
      duration_unit == map_duration_unit(Get(block, "durationUnit"))
      numeric_duration == safe_positive_number(Get(block, "duration"))
      phase_payload ==
        [name |-> name, duration |-> numeric_duration,
         unit |-> PyOr(duration_unit, StrV("minutes"))]
      children ==
        IF "children" \in DOMAIN block THEN block["children"] ELSE ListV(<<>>)
      has_children == children.t = "list" /\ Len(children.items) > 0
      sub_intervals == normalize_children(children.items, <<>>)
      complex_payload ==
        [name |-> name,
         repetitions |-> ensure_positive_int(Get(block, "repetitions"), 1),
         sub_intervals |-> ListV(sub_intervals)]
      simple_payload == simple_interval(block, name)
  IN CASE block_type \in {"warmup", "cooldown"} ->
            IF ~Truthy(numeric_duration) THEN acc
            ELSE [acc EXCEPT !.training_data =
                    (block_type :> phase_payload) @@ @]
       [] block_type = "interval" ->
            IF has_children
            THEN IF sub_intervals # <<>>
                 THEN [acc EXCEPT !.intervals = Append(@, complex_payload)]
                 ELSE acc
            ELSE IF Truthy(simple_payload.duration_or_distance)
                 THEN [acc EXCEPT !.intervals = Append(@, simple_payload)]
                 ELSE acc
       [] block_type = "rest" ->
            IF Truthy(numeric_duration)
            THEN [acc EXCEPT !.rest_periods = Append(@, phase_payload)]
            ELSE acc
       [] OTHER -> acc

RECURSIVE normalize_loop(_, _)
normalize_loop(bs, acc) ==
  IF bs = <<>> THEN acc
  ELSE normalize_loop(Tail(bs), normalize_block(Head(bs), acc))

normalize_training_blocks(bs) ==
  IF bs = <<>> THEN EmptyDict
  ELSE LET acc == normalize_loop(bs, [training_data |-> EmptyDict,
                                      intervals |-> <<>>,
                                      rest_periods |-> <<>>])
       IN acc.training_data
          @@ (IF acc.intervals # <<>>
              THEN [intervals |-> ListV(acc.intervals)] ELSE EmptyDict)
          @@ (IF acc.rest_periods # <<>>
              THEN [rest_periods |-> ListV(acc.rest_periods)] ELSE EmptyDict)

-----------------------------------------------------------------------------
(* Validation outcomes.  An error carries the path it is raised for, the   *)
(* message (by its wording) and the field names the message lists.         *)

OK == [at |-> "", msg |-> "ok", fields |-> <<>>]
Err(at, msg, fields) == [at |-> at, msg |-> msg, fields |-> fields]

Min(S) == CHOOSE x \in S : \A y \in S : x <= y

\* f'{name}[{i}]' for the i-th (1-based here) entry of a list.
Indexed(name, i) == name \o "[" \o ToString(i - 1) \o "]"

\* v in <list of strings>
InStrs(v, strs) == v.t = "str" /\ v.s \in strs

\* Mutant of present_fields: only the first offending field is reported.
present_fields_first_only(wanted, d) ==
  LET idx == {i \in 1..Len(wanted) : wanted[i] \in DOMAIN d}
  IN IF idx = {} THEN <<>>
     ELSE <<wanted[CHOOSE i \in idx : \A j \in idx : i <= j]>>

\* The fields of `wanted`, in order, that are keys of d.
RECURSIVE present_fields(_, _)
present_fields(wanted, d) ==
  IF wanted = <<>> THEN <<>>
  ELSE (IF Head(wanted) \in DOMAIN d THEN <<Head(wanted)>> ELSE <<>>)
       \o present_fields(Tail(wanted), d)

\* Mutant of missing_fields: required fields are never missed.
missing_fields_none(wanted, d) == <<>>

\* The fields of `wanted`, in order, that are not keys of d.
RECURSIVE missing_fields(_, _)
missing_fields(wanted, d) ==
  IF wanted = <<>> THEN <<>>
  ELSE (IF Head(wanted) \notin DOMAIN d THEN <<Head(wanted)>> ELSE <<>>)
       \o missing_fields(Tail(wanted), d)

\* Mutant of is_empty_list: an empty array passes.
is_empty_list_never(v) == FALSE

\* len(interval['sub_intervals']) == 0
is_empty_list(v) == Len(v.items) = 0

-----------------------------------------------------------------------------
(* The model-level validator, Training._validate_training_data: it raises  *)
(* on the first violation it meets.                                        *)

TIME_UNITS == {"seconds", "minutes", "hours"}
DISTANCE_UNITS == {"meters", "kilometers", "miles"}
ZONE_TYPES == {"HR", "MAS", "FPP", "CSS"}

Training_validate_zone_type(zone_type, context_name) ==
  IF ~InStrs(zone_type, ZONE_TYPES)
  THEN Err(context_name, "zone_type must be one of", <<>>)
  ELSE OK

Training_validate_intensity(intensity, context_name) ==
  IF ~IsNumber(intensity)
  THEN Err(context_name, "intensity must be a number", <<>>)
  ELSE IF intensity.n < 0 \/ intensity.n > 150
  THEN Err(context_name, "intensity must be between 0 and 150 percent", <<>>)
  ELSE OK

\* The checks of zone_type and intensity that end each validator.
Training_validate_optional(d, context_name) ==
  LET z == IF "zone_type" \in DOMAIN d
           THEN Training_validate_zone_type(d["zone_type"], context_name)
           ELSE OK
  IN IF z # OK THEN z
     ELSE IF "intensity" \in DOMAIN d
     THEN Training_validate_intensity(d["intensity"], context_name)
     ELSE OK

Training_validate_phase(phase, phase_name) ==
  LET has_duration == "duration" \in DOMAIN phase
      has_unit == "unit" \in DOMAIN phase
  IN IF "name" \notin DOMAIN phase
     THEN Err(phase_name, "must have name", <<"name">>)
     ELSE IF has_duration /\ ~has_unit
     THEN Err(phase_name, "must have unit when duration is specified",
              <<"unit">>)
     ELSE IF has_unit /\ ~has_duration
     THEN Err(phase_name, "must have duration when unit is specified",
              <<"duration">>)
     ELSE IF has_unit
             /\ ~InStrs(phase["unit"], TIME_UNITS \cup DISTANCE_UNITS)
     THEN Err(phase_name, "unit must be one of", <<"unit">>)
     ELSE Training_validate_optional(phase, phase_name)

\* leaf is "work" or "rest": the last segment of phase_name, which decides
\* `'rest' in phase_name` and `'work' in phase_name`.
Training_validate_work_rest_phase(phase, phase_name, leaf) ==
  LET required_fields ==
        IF leaf = "rest" THEN <<"name", "duration", "unit">>
        ELSE <<"name", "type", "duration_or_distance", "unit">>
      missing == missing_fields(required_fields, phase)
      phase_type == Get(phase, "type")
      unit == Get(phase, "unit")
  IN IF missing # <<>>
     THEN Err(phase_name, "must have field", <<Head(missing)>>)
     ELSE IF leaf = "work" /\ phase_type = StrV("time")
             /\ ~InStrs(unit, TIME_UNITS)
     THEN Err(phase_name, "with type time must use time units", <<"unit">>)
     ELSE IF leaf = "work" /\ phase_type = StrV("distance")
             /\ ~InStrs(unit, DISTANCE_UNITS)
     THEN Err(phase_name, "with type distance must use distance units",
              <<"unit">>)
     ELSE Training_validate_optional(phase, phase_name)

Training_validate_sub_interval(sub_interval, sub_interval_name) ==
  LET w == IF "work" \in DOMAIN sub_interval
           THEN Training_validate_work_rest_phase(
                  sub_interval["work"], sub_interval_name \o ".work", "work")
           ELSE OK
  IN IF w # OK THEN w
     ELSE IF "rest" \in DOMAIN sub_interval
     THEN Training_validate_work_rest_phase(
            sub_interval["rest"], sub_interval_name \o ".rest", "rest")
     ELSE OK

\* The loop over interval['sub_intervals']: the first error met.
Training_validate_sub_intervals(items, interval_name) ==
  LET name(i) == Indexed(interval_name \o ".sub_intervals", i)
      bad == {i \in 1..Len(items) :
                Training_validate_sub_interval(items[i], name(i)) # OK}
  IN IF bad = {} THEN OK
     ELSE Training_validate_sub_interval(items[Min(bad)], name(Min(bad)))

\* The branch of _validate_interval taken when sub_intervals is a key.
Training_validate_complex(interval, interval_name) ==
  LET subs == interval["sub_intervals"]
      repetitions == Get(interval, "repetitions")
      forbidden_fields ==
        present_fields(<<"type", "duration_or_distance", "unit">>, interval)
  IN IF subs.t # "list"
     THEN Err(interval_name, "sub_intervals must be a list",
              <<"sub_intervals">>)
     ELSE IF is_empty_list(subs)
     THEN Err(interval_name, "has sub_intervals but the array is empty",
              <<"sub_intervals">>)
     ELSE IF "repetitions" \notin DOMAIN interval
     THEN Err(interval_name,
              "must have repetitions when sub_intervals are specified",
              <<"repetitions">>)
     ELSE IF ~(repetitions.t = "int") \/ repetitions.n <= 0
     THEN Err(interval_name, "repetitions must be a positive integer",
              <<"repetitions">>)
     ELSE IF forbidden_fields # <<>>
     THEN Err(interval_name,
              "has sub_intervals but also contains parent-level fields",
              forbidden_fields)
     ELSE Training_validate_sub_intervals(subs.items, interval_name)

\* The branch of _validate_interval taken when sub_intervals is no key.
Training_validate_simple(interval, interval_name) ==
  LET missing ==
        missing_fields(<<"type", "duration_or_distance", "unit">>, interval)
      interval_type == Get(interval, "type")
      unit == Get(interval, "unit")
  IN IF missing # <<>>
     THEN Err(interval_name,
              "must have field when sub_intervals are not specified",
              <<Head(missing)>>)
     ELSE IF ~InStrs(unit, TIME_UNITS \cup DISTANCE_UNITS)
     THEN Err(interval_name, "unit must be one of", <<"unit">>)
     ELSE IF interval_type = StrV("time") /\ ~InStrs(unit, TIME_UNITS)
     THEN Err(interval_name, "with type time must use time units",
              <<"unit">>)
     ELSE IF interval_type = StrV("distance")
             /\ ~InStrs(unit, DISTANCE_UNITS)
     THEN Err(interval_name, "with type distance must use distance units",
              <<"unit">>)
     ELSE OK

Training_validate_interval(interval, interval_name) ==
  IF "name" \notin DOMAIN interval
  THEN Err(interval_name, "must have name", <<"name">>)
  ELSE LET branch ==
             IF "sub_intervals" \in DOMAIN interval
             THEN Training_validate_complex(interval, interval_name)
             ELSE Training_validate_simple(interval, interval_name)
       IN IF branch # OK THEN branch
          ELSE Training_validate_optional(interval, interval_name)

\* The loop over data['intervals'].
Training_validate_intervals(items) ==
  LET bad == {i \in 1..Len(items) :
                Training_validate_interval(items[i],
                                           Indexed("intervals", i)) # OK}
  IN IF bad = {} THEN OK
     ELSE Training_validate_interval(items[Min(bad)],
                                     Indexed("intervals", Min(bad)))

\* The loop over data['rest_periods'].
Training_validate_rest_periods(items) ==
  LET bad == {i \in 1..Len(items) :
                Training_validate_phase(items[i],
                                        Indexed("rest_periods", i)) # OK}
  IN IF bad = {} THEN OK
     ELSE Training_validate_phase(items[Min(bad)],
                                  Indexed("rest_periods", Min(bad)))

\* Mutant of Training_validate_training_data: the sections are visited from
\* the cooldown back to the warmup.
Training_validate_training_data_backwards(data) ==
  LET w == IF "warmup" \in DOMAIN data
           THEN Training_validate_phase(data["warmup"], "warmup") ELSE OK
      i == IF "intervals" \in DOMAIN data
           THEN IF data["intervals"].t # "list"
                THEN Err("intervals", "Intervals must be a list", <<>>)
                ELSE Training_validate_intervals(data["intervals"].items)
           ELSE OK
      r == IF "rest_periods" \in DOMAIN data
           THEN IF data["rest_periods"].t # "list"
                THEN Err("rest_periods", "Rest periods must be a list", <<>>)
                ELSE Training_validate_rest_periods(
                       data["rest_periods"].items)
           ELSE OK
      c == IF "cooldown" \in DOMAIN data
           THEN Training_validate_phase(data["cooldown"], "cooldown") ELSE OK
  IN IF c # OK THEN c ELSE IF r # OK THEN r ELSE IF i # OK THEN i ELSE w

Training_validate_training_data(data) ==
  LET w == IF "warmup" \in DOMAIN data
           THEN Training_validate_phase(data["warmup"], "warmup") ELSE OK
      i == IF "intervals" \in DOMAIN data
           THEN IF data["intervals"].t # "list"
                THEN Err("intervals", "Intervals must be a list", <<>>)
                ELSE Training_validate_intervals(data["intervals"].items)
           ELSE OK
      r == IF "rest_periods" \in DOMAIN data
           THEN IF data["rest_periods"].t # "list"
                THEN Err("rest_periods", "Rest periods must be a list", <<>>)
                ELSE Training_validate_rest_periods(
                       data["rest_periods"].items)
           ELSE OK
      c == IF "cooldown" \in DOMAIN data
           THEN Training_validate_phase(data["cooldown"], "cooldown") ELSE OK
  IN IF w # OK THEN w ELSE IF i # OK THEN i ELSE IF r # OK THEN r ELSE c

\* Training.clean: the structure is validated only when it is not empty.
Training_clean(data) ==
  IF data # EmptyDict THEN Training_validate_training_data(data) ELSE OK

-----------------------------------------------------------------------------
(* The serializer-level validator, TrainingDataValidator: it collects the  *)
(* errors of the whole structure and raises once, with all of them.        *)

VALID_ZONE_TYPES == {"HR", "MAS", "FPP", "CSS"}
VALID_UNITS == {"minutes", "seconds", "kilometers", "meters"}
VALID_INTERVAL_TYPES == {"time", "distance"}

\* [f"{prefix}.{error}" for error in errors]
Prefixed(prefix, errors) ==
  [i \in 1..Len(errors) |->
     [errors[i] EXCEPT !.at = IF @ = "" THEN prefix ELSE prefix \o "." \o @]]

\* One 'X is required' error per field of `wanted` that is no key of d.
required_errors(wanted, d) ==
  LET missing == missing_fields(wanted, d)
  IN [i \in 1..Len(missing) |-> Err("", "is required", <<missing[i]>>)]

\* not isinstance(v, (int, float)) or v <= 0
NotPositiveNumber(v) == ~IsNumber(v) \/ v.n <= 0

\* Mutant of NotPositiveInt: zero passes.
NotPositiveInt_allows_zero(v) == ~(v.t = "int") \/ v.n < 0

\* not isinstance(v, int) or v <= 0
NotPositiveInt(v) == ~(v.t = "int") \/ v.n <= 0

When(cond, error) == IF cond THEN <<error>> ELSE <<>>

TrainingDataValidator_validate_phase(phase) ==
  required_errors(<<"name", "duration">>, phase)
  \o When("duration" \in DOMAIN phase
          /\ NotPositiveNumber(Get(phase, "duration")),
          Err("", "duration must be a positive number", <<"duration">>))
  \o When("unit" \in DOMAIN phase
          /\ ~InStrs(Get(phase, "unit"), VALID_UNITS),
          Err("", "unit must be one of", <<"unit">>))
  \o When("zone_type" \in DOMAIN phase
          /\ ~InStrs(Get(phase, "zone_type"), VALID_ZONE_TYPES),
          Err("", "zone_type must be one of", <<"zone_type">>))
  \o When("intensity" \in DOMAIN phase
          /\ (~IsNumber(Get(phase, "intensity"))
              \/ ~(0 <= Get(phase, "intensity").n
                   /\ Get(phase, "intensity").n <= 100)),
          Err("", "intensity must be a number between 0 and 100",
              <<"intensity">>))

TrainingDataValidator_validate_rest(rest) ==
  required_errors(<<"duration">>, rest)
  \o When("duration" \in DOMAIN rest
          /\ NotPositiveNumber(Get(rest, "duration")),
          Err("", "duration must be a positive number", <<"duration">>))
  \o When("unit" \in DOMAIN rest
          /\ ~InStrs(Get(rest, "unit"), VALID_UNITS),
          Err("", "unit must be one of", <<"unit">>))

TrainingDataValidator_validate_work_phase(work) ==
  required_errors(<<"name", "type", "duration_or_distance">>, work)
  \o When("type" \in DOMAIN work
          /\ ~InStrs(Get(work, "type"), VALID_INTERVAL_TYPES),
          Err("", "type must be one of", <<"type">>))
  \o When("duration_or_distance" \in DOMAIN work
          /\ NotPositiveNumber(Get(work, "duration_or_distance")),
          Err("", "duration_or_distance must be a positive number",
              <<"duration_or_distance">>))

TrainingDataValidator_validate_sub_interval(sub_interval) ==
  (IF "work" \in DOMAIN sub_interval
   THEN Prefixed("work",
          TrainingDataValidator_validate_work_phase(sub_interval["work"]))
   ELSE <<>>)
  \o (IF "rest" \in DOMAIN sub_interval
      THEN Prefixed("rest",
             TrainingDataValidator_validate_rest(sub_interval["rest"]))
      ELSE <<>>)

\* The loop over interval['sub_intervals'], from entry i on.
RECURSIVE TrainingDataValidator_validate_sub_intervals(_, _)
TrainingDataValidator_validate_sub_intervals(items, i) ==
  IF i > Len(items) THEN <<>>
  ELSE Prefixed(Indexed("sub_intervals", i),
                TrainingDataValidator_validate_sub_interval(items[i]))
       \o TrainingDataValidator_validate_sub_intervals(items, i + 1)

\* The branch of _validate_interval taken when sub_intervals is a key.
TrainingDataValidator_validate_complex(interval) ==
  LET subs == interval["sub_intervals"]
      forbidden_fields ==
        present_fields(<<"type", "duration_or_distance", "unit">>, interval)
  IN (IF subs.t # "list"
      THEN <<Err("", "sub_intervals must be a list", <<"sub_intervals">>)>>
      ELSE When(is_empty_list(subs),
                Err("", "sub_intervals array is empty",
                    <<"sub_intervals">>)))
     \o (IF "repetitions" \notin DOMAIN interval
         THEN <<Err("",
                    "repetitions is required when sub_intervals are specified",
                    <<"repetitions">>)>>
         ELSE When(NotPositiveInt(interval["repetitions"]),
                   Err("", "repetitions must be a positive integer",
                       <<"repetitions">>)))
     \o When(forbidden_fields # <<>>,
             Err("", "has sub_intervals but also contains parent-level fields",
                 forbidden_fields))
     \o (IF subs.t = "list"
         THEN TrainingDataValidator_validate_sub_intervals(subs.items, 1)
         ELSE <<>>)

\* The branch of _validate_interval taken when sub_intervals is no key.
TrainingDataValidator_validate_simple(interval) ==
  required_errors(<<"type", "duration_or_distance", "unit", "repetitions">>,
                  interval)
  \o When("type" \in DOMAIN interval
          /\ ~InStrs(Get(interval, "type"), VALID_INTERVAL_TYPES),
          Err("", "type must be one of", <<"type">>))
  \o When("duration_or_distance" \in DOMAIN interval
          /\ NotPositiveNumber(Get(interval, "duration_or_distance")),
          Err("", "duration_or_distance must be a positive number",
              <<"duration_or_distance">>))
  \o When("repetitions" \in DOMAIN interval
          /\ NotPositiveInt(Get(interval, "repetitions")),
          Err("", "repetitions must be a positive integer",
              <<"repetitions">>))

TrainingDataValidator_validate_interval(interval) ==
  required_errors(<<"name">>, interval)
  \o (IF "sub_intervals" \in DOMAIN interval
      THEN TrainingDataValidator_validate_complex(interval)
      ELSE TrainingDataValidator_validate_simple(interval))

\* The loop over data['intervals'], from entry i on.
RECURSIVE TrainingDataValidator_validate_intervals(_, _)
TrainingDataValidator_validate_intervals(items, i) ==
  IF i > Len(items) THEN <<>>
  ELSE Prefixed(Indexed("intervals", i),
                TrainingDataValidator_validate_interval(items[i]))
       \o TrainingDataValidator_validate_intervals(items, i + 1)

\* The loop over data['rest_periods'], from entry i on.
RECURSIVE TrainingDataValidator_validate_rest_periods(_, _)
TrainingDataValidator_validate_rest_periods(items, i) ==
  IF i > Len(items) THEN <<>>
  ELSE Prefixed(Indexed("rest_periods", i),
                TrainingDataValidator_validate_rest(items[i]))
       \o TrainingDataValidator_validate_rest_periods(items, i + 1)

\* The errors of the one ValidationError raised; <<>> when data is returned.
TrainingDataValidator_validate_training_data(data) ==
  (IF "warmup" \in DOMAIN data
   THEN Prefixed("warmup",
                 TrainingDataValidator_validate_phase(data["warmup"]))
   ELSE <<>>)
  \o (IF "intervals" \in DOMAIN data /\ data["intervals"].t = "list"
      THEN TrainingDataValidator_validate_intervals(data["intervals"].items, 1)
      ELSE <<>>)
  \o (IF "rest_periods" \in DOMAIN data /\ data["rest_periods"].t = "list"
      THEN TrainingDataValidator_validate_rest_periods(
             data["rest_periods"].items, 1)
      ELSE <<>>)
  \o (IF "cooldown" \in DOMAIN data
      THEN Prefixed("cooldown",
                    TrainingDataValidator_validate_phase(data["cooldown"]))
      ELSE <<>>)

\* TrainingSerializer.validate_training_data: only a non-empty value is
\* validated.
TrainingSerializer_validate_training_data(data) ==
  IF data # EmptyDict
  THEN TrainingDataValidator_validate_training_data(data) ELSE <<>>

-----------------------------------------------------------------------------
(* The UI blocks a request may carry (trainingBlocks and their children).  *)

WarmupBlocks ==
  { [type |-> StrV("warmup"), name |-> StrV("Warm Up"),
     duration |-> StrV("10"), durationUnit |-> StrV("min")],
    [type |-> StrV("Warmup"), duration |-> StrV("10"),
     durationUnit |-> StrV("hr")],
    [type |-> StrV("warmup"), duration |-> StrV("0")],
    [type |-> StrV("warmup")],
    [type |-> StrV("warmup"), duration |-> StrV("abc"),
     durationUnit |-> StrV(" Min ")],
    [type |-> StrV("warmup"), duration |-> StrV("-5")],
    [type |-> StrV("warmup"), duration |-> IntV(5),
     durationUnit |-> StrV("km")],
    [type |-> StrV("cooldown"), duration |-> StrV("10"),
     durationUnit |-> StrV("sec")],
    [type |-> StrV("cooldown"), duration |-> StrV("0")] }

RestBlocks ==
  { [type |-> StrV("rest"), duration |-> StrV("90"),
     durationUnit |-> StrV("sec")],
    [type |-> StrV("rest"), duration |-> StrV("0")],
    [type |-> StrV("rest"), name |-> StrV("Pause"), duration |-> StrV("2"),
     durationUnit |-> StrV("hr")],
    [type |-> StrV("note")] }

IntervalBlocks ==
  { [type |-> StrV("interval"), name |-> StrV("Main Set"),
     duration |-> StrV("5"), durationUnit |-> StrV("min"),
     repetitions |-> IntV(4), intervalType |-> StrV("time")],
    [type |-> StrV("interval"), distance |-> StrV("400"),
     distanceUnit |-> StrV("m"), intervalType |-> StrV("distance")],
    [type |-> StrV("interval"), duration |-> StrV("5"),
     distance |-> StrV("400"), distanceUnit |-> StrV(" km"),
     intervalType |-> StrV("distance"), repetitions |-> StrV("3")],
    [type |-> StrV("interval"), duration |-> StrV("5"),
     intervalType |-> StrV("pace")],
    [type |-> StrV("interval"), duration |-> StrV("5"),
     durationUnit |-> StrV("hr"), repetitions |-> IntV(0)],
    [type |-> StrV("interval"), duration |-> StrV("0"),
     distance |-> StrV("400"), intervalType |-> StrV("distance")],
    [type |-> StrV("interval"), distance |-> StrV("400"),
     intervalType |-> StrV("time"), repetitions |-> StrV("abc")] }

TopBlocks == WarmupBlocks \cup RestBlocks \cup IntervalBlocks

ChildBlocks ==
  { [type |-> StrV("interval"), duration |-> StrV("2"),
     durationUnit |-> StrV("min")],
    [type |-> StrV("interval"), name |-> StrV("Rep"),
     intervalType |-> StrV("distance"), distance |-> StrV("400"),
     distanceUnit |-> StrV("m"), intensity |-> IntV(80),
     intensityUnit |-> StrV("HR")],
    [type |-> StrV("interval"), duration |-> StrV("2"),
     intensity |-> IntV(200)],
    [type |-> StrV("interval"), duration |-> StrV("2"),
     intensity |-> StrV("80"), intensityUnit |-> StrV("power")],
    [type |-> StrV("interval"), intervalType |-> StrV("pace"),
     duration |-> StrV("2"), distance |-> StrV("400")],
    [type |-> StrV("interval"), duration |-> StrV("0")],
    [type |-> StrV("interval"), intervalType |-> StrV("distance"),
     duration |-> StrV("2")],
    [type |-> StrV("rest"), duration |-> StrV("90")],
    [type |-> StrV("rest"), name |-> StrV("Jog"), duration |-> StrV("2"),
     durationUnit |-> StrV("hr")],
    [type |-> StrV("rest"), duration |-> StrV("0")] }

\* The children of a block: block.get('children', []).
children_of(block) ==
  IF "children" \in DOMAIN block THEN block["children"].items ELSE <<>>

RECURSIVE CountBlocks(_)
CountBlocks(bs) ==
  IF bs = <<>> THEN 0
  ELSE 1 + Len(children_of(Head(bs))) + CountBlocks(Tail(bs))

-----------------------------------------------------------------------------
(* Defaults of the variables a specification does not use.                 *)

Pending == [at |-> "", msg |-> "pending", fields |-> <<>>]
NotRun == [done |-> FALSE, errors |-> <<>>]
NoRequest == [actor |-> 0, data |-> EmptyDict, path |-> ""]
NoResponse ==
  [status |-> 0, fields |-> {}, kind |-> "", athlete |-> 0,
   date |-> None, date_end |-> None, sport |-> None]

\* Tables: a row maps to the number of its copies.
EmptyTable == [row \in {} |-> 0]
Insert(table, row) ==
  [r \in DOMAIN table \cup {row} |->
     IF r \in DOMAIN table
     THEN table[r] + (IF r = row THEN 1 ELSE 0) ELSE 1]
Delete(table, deleted) == [r \in DOMAIN table \ deleted |-> table[r]]

\* Requests served at the same time.
Slots == 1..MaxCalls
NoCall == [mentee |-> 0, coach |-> 0]
NoResult == [op |-> "", mentee |-> 0, coach |-> 0, outcome |-> ""]

InitNorm ==
  /\ blocks = <<>>
  /\ training_data = EmptyDict
  /\ model_result = Pending
  /\ serializer_result = NotRun

InitEvents ==
  /\ assignments = EmptyTable
  /\ calls = [slot \in Slots |-> NoCall]
  /\ result = NoResult
  /\ events = <<>>
  /\ request = NoRequest
  /\ response = NoResponse

InitParse ==
  /\ value = <<>>
  /\ parsed = None

\* No account registered yet.
InitProfiles ==
  /\ users = {}
  /\ athletic_profiles = {}
  /\ professional_profiles = {}
  /\ achievements = {}
  /\ current_year = StartYear
  /\ email_tasks = <<>>

-----------------------------------------------------------------------------
(* Spec: a list of UI blocks is built, normalized, and the result is given *)
(* to both validators.                                                     *)

AddBlock(b) ==
  /\ pc = "build"
  /\ CountBlocks(blocks) < MaxBlocks
  /\ blocks' = Append(blocks, b)
  /\ UNCHANGED <<training_data, model_result, serializer_result, pc>>
  /\ UNCHANGED <<eventVars, parseVars, profileVars, coachVars,
               accountVars>>

\* A child is added to the last block, an interval block.
AddChild(c) ==
  /\ pc = "build"
  /\ CountBlocks(blocks) < MaxBlocks
  /\ blocks # <<>>
  /\ block_type_of(blocks[Len(blocks)]) = "interval"
  /\ blocks' = [blocks EXCEPT ![Len(blocks)] =
                  [children |-> ListV(Append(children_of(@), c))] @@ @]
  /\ UNCHANGED <<training_data, model_result, serializer_result, pc>>
  /\ UNCHANGED <<eventVars, parseVars, profileVars, coachVars,
               accountVars>>

Normalize ==
  /\ pc = "build"
  /\ training_data' = normalize_training_blocks(blocks)
  /\ pc' = "ready"
  /\ UNCHANGED <<blocks, model_result, serializer_result>>
  /\ UNCHANGED <<eventVars, parseVars, profileVars, coachVars,
               accountVars>>

\* Training.save -> full_clean -> clean on the structure.
ModelClean ==
  /\ pc = "ready"
  /\ model_result = Pending
  /\ model_result' = Training_clean(training_data)
  /\ UNCHANGED <<blocks, training_data, serializer_result, pc>>
  /\ UNCHANGED <<eventVars, parseVars, profileVars, coachVars,
               accountVars>>

\* TrainingSerializer.is_valid on the structure.
SerializerValidate ==
  /\ pc = "ready"
  /\ ~serializer_result.done
  /\ serializer_result' =
       [done |-> TRUE,
        errors |-> TrainingSerializer_validate_training_data(training_data)]
  /\ UNCHANGED <<blocks, training_data, model_result, pc>>
  /\ UNCHANGED <<eventVars, parseVars, profileVars, coachVars,
               accountVars>>

Init == pc = "build" /\ InitNorm /\ InitEvents /\ InitParse /\ InitProfiles

Next ==
  \/ \E b \in TopBlocks : AddBlock(b)
  \/ \E c \in ChildBlocks : AddChild(c)
  \/ Normalize
  \/ ModelClean
  \/ SerializerValidate

Spec == Init /\ [][Next]_vars

-----------------------------------------------------------------------------
(* SpecValidate: a training_data structure with one interval is written    *)
(* directly (no normalizer), one key of the interval at a time, then       *)
(* submitted to both validators.                                           *)

WorkPhases ==
  { ([name |-> StrV("W"), duration_or_distance |-> FloatV(2)] @@ ty) @@ un :
      ty \in {EmptyDict} \cup
             {[type |-> StrV(x)] : x \in {"time", "distance", "pace"}},
      un \in {EmptyDict} \cup
             {[unit |-> StrV(x)] : x \in {"minutes", "meters", "miles"}} }

RestPhases ==
  { [name |-> StrV("R"), duration |-> IntV(90), unit |-> StrV("seconds")],
    [name |-> StrV("R"), duration |-> IntV(0)],
    [name |-> StrV("R"), duration |-> IntV(0), unit |-> StrV("seconds")],
    [duration |-> IntV(90), unit |-> StrV("seconds")] }

SubIntervalLists ==
  {ListV(<<>>), StrV("none")}
  \cup {ListV(<<[work |-> w]>>) : w \in WorkPhases}
  \cup {ListV(<<[work |-> [name |-> StrV("W"), type |-> StrV("time"),
                           duration_or_distance |-> IntV(0),
                           unit |-> StrV("minutes")]]>>)}
  \cup {ListV(<<[work |-> [name |-> StrV("W"), type |-> StrV("time"),
                           duration_or_distance |-> FloatV(2),
                           unit |-> StrV("minutes")],
                 rest |-> r]>>) : r \in RestPhases}

\* The values a key of the interval may be given.
IntervalFieldValues(k) ==
  CASE k = "name" -> {StrV("X")}
    [] k = "sub_intervals" -> SubIntervalLists
    [] k = "repetitions" ->
         {IntV(5), IntV(0), IntV(0 - 1), FloatV(2), StrV("3")}
    [] k = "type" -> {StrV("time"), StrV("distance"), StrV("pace")}
    [] k = "duration_or_distance" -> {FloatV(4), IntV(0)}
    [] k = "unit" ->
         {StrV(x) : x \in {"minutes", "hours", "meters", "kilometers",
                           "miles"}}

IntervalKeys ==
  {"name", "sub_intervals", "repetitions", "type", "duration_or_distance",
   "unit"}

\* The interval under validation in SpecValidate.
the_interval == training_data["intervals"].items[1]

SetIntervalField(k, v) ==
  /\ pc = "edit"
  /\ k \notin DOMAIN the_interval
  /\ training_data' =
       [intervals |-> ListV(<<(k :> v) @@ the_interval>>)]
  /\ UNCHANGED <<blocks, model_result, serializer_result, pc>>
  /\ UNCHANGED <<eventVars, parseVars, profileVars, coachVars,
               accountVars>>

Submit ==
  /\ pc = "edit"
  /\ pc' = "ready"
  /\ UNCHANGED <<normVars, eventVars, parseVars, profileVars, coachVars,
               accountVars>>

InitValidate ==
  /\ pc = "edit"
  /\ blocks = <<>>
  /\ training_data = [intervals |-> ListV(<<EmptyDict>>)]
  /\ model_result = Pending
  /\ serializer_result = NotRun
  /\ InitEvents
  /\ InitParse
  /\ InitProfiles

NextValidate ==
  \/ \E k \in IntervalKeys : \E v \in IntervalFieldValues(k) :
       SetIntervalField(k, v)
  \/ Submit
  \/ ModelClean
  \/ SerializerValidate

SpecValidate == InitValidate /\ [][NextValidate]_vars

-----------------------------------------------------------------------------
(* Claims about the normalizer's output (under Spec).                      *)

Range(seq) == {seq[i] : i \in 1..Len(seq)}

ModelAccepted == model_result = OK
ModelRejected == model_result # Pending /\ model_result # OK
SerializerAccepted ==
  serializer_result.done /\ serializer_result.errors = <<>>
SerializerRejected ==
  serializer_result.done /\ serializer_result.errors # <<>>

\* C1: whatever list of UI blocks is normalized, the model-level validator
\* (Training._validate_training_data, through Training.clean) accepts the
\* structure the normalizer returns.
C1_NormalizedAcceptedByModel == ~ModelRejected

\* C2: whatever list of UI blocks is normalized, the serializer-level
\* validator (TrainingDataValidator.validate_training_data) accepts the
\* structure the normalizer returns.
C2_NormalizedAcceptedBySerializer == ~SerializerRejected

-----------------------------------------------------------------------------
(* Claims about one interval given to the validators (under SpecValidate). *)

SimpleFields == {"type", "duration_or_distance", "unit"}
has_sub_intervals(iv) == "sub_intervals" \in DOMAIN iv
has_all_simple(iv) == SimpleFields \subseteq DOMAIN iv
Offending(iv) == SimpleFields \cap DOMAIN iv
nonempty_subs(iv) ==
  /\ has_sub_intervals(iv)
  /\ iv["sub_intervals"].t = "list"
  /\ Len(iv["sub_intervals"].items) > 0
valid_repetitions(iv) ==
  /\ "repetitions" \in DOMAIN iv
  /\ iv["repetitions"].t = "int"
  /\ iv["repetitions"].n > 0

\* C5: an interval is accepted, by either validator, only if exactly one of
\* "has sub_intervals" and "has all of type, duration_or_distance, unit"
\* holds; an interval with sub_intervals and any of the three fields is
\* rejected, and so is one without sub_intervals that lacks any of them.
C5_MutualExclusivity ==
  LET iv == the_interval
  IN /\ (ModelAccepted \/ SerializerAccepted)
          => (has_sub_intervals(iv) # has_all_simple(iv))
     /\ (has_sub_intervals(iv) /\ Offending(iv) # {})
          => (model_result # Pending => ModelRejected)
             /\ (serializer_result.done => SerializerRejected)
     /\ (~has_sub_intervals(iv) /\ ~has_all_simple(iv))
          => (model_result # Pending => ModelRejected)
             /\ (serializer_result.done => SerializerRejected)

\* Witness of C5: a complex interval accepted by both validators, and
\* carrying none of the three simple-interval fields.
C5_Witness ==
  /\ pc = "ready"
  /\ ModelAccepted /\ SerializerAccepted
  /\ nonempty_subs(the_interval)
  /\ Offending(the_interval) = {}

ForbiddenMsg == "has sub_intervals but also contains parent-level fields"

C6_Pre(iv) ==
  nonempty_subs(iv) /\ valid_repetitions(iv) /\ Offending(iv) # {}

C6_SerializerNamesAll(iv) ==
  serializer_result.done =>
    /\ SerializerRejected
    /\ \E i \in 1..Len(serializer_result.errors) :
         /\ serializer_result.errors[i].msg = ForbiddenMsg
         /\ Range(serializer_result.errors[i].fields) = Offending(iv)

C6_ModelNamesAll(iv) ==
  /\ model_result.msg = ForbiddenMsg
  /\ Range(model_result.fields) = Offending(iv)

\* C6 as stated: an interval with a non-empty sub_intervals list, valid
\* repetitions and one or more of type, duration_or_distance, unit fails
\* validation with the error that names every offending field present.
C6_ForbiddenFieldsNamed_Original ==
  LET iv == the_interval
  IN C6_Pre(iv) =>
       /\ (model_result # Pending => C6_ModelNamesAll(iv))
       /\ C6_SerializerNamesAll(iv)

\* C6 amended: such an interval always fails validation; the serializer-level
\* error always lists every offending field, and the model-level error does
\* so when the interval also has a name (the name is checked first and the
\* model-level validator stops at the first violation).
C6_ForbiddenFieldsNamed ==
  LET iv == the_interval
  IN C6_Pre(iv) =>
       /\ (model_result # Pending =>
             /\ ModelRejected
             /\ ("name" \in DOMAIN iv => C6_ModelNamesAll(iv)))
       /\ C6_SerializerNamesAll(iv)

\* Witness of C6: a named complex interval carrying two or more forbidden
\* fields, rejected by both validators.
C6_Witness ==
  /\ C6_Pre(the_interval)
  /\ "name" \in DOMAIN the_interval
  /\ Cardinality(Offending(the_interval)) >= 2
  /\ ModelRejected /\ SerializerRejected

EmptyMsgModel == "has sub_intervals but the array is empty"
EmptyMsgSerializer == "sub_intervals array is empty"
SimpleBranchMsgs ==
  {"must have field when sub_intervals are not specified",
   "with type time must use time units",
   "with type distance must use distance units",
   "is required", "type must be one of",
   "duration_or_distance must be a positive number"}

C7_Pre(iv) ==
  /\ has_sub_intervals(iv)
  /\ iv["sub_intervals"].t = "list"
  /\ Len(iv["sub_intervals"].items) = 0

C7_SerializerSaysEmpty ==
  serializer_result.done =>
    /\ \E i \in 1..Len(serializer_result.errors) :
         serializer_result.errors[i].msg = EmptyMsgSerializer
    /\ \A i \in 1..Len(serializer_result.errors) :
         serializer_result.errors[i].msg \in SimpleBranchMsgs
           => serializer_result.errors[i].fields = <<"name">>

\* C7 as stated: an interval whose sub_intervals is an empty list is
\* rejected, whatever its other fields, with the message of the empty-array
\* condition.
C7_EmptySubIntervals_Original ==
  C7_Pre(the_interval) =>
    /\ (model_result # Pending => model_result.msg = EmptyMsgModel)
    /\ C7_SerializerSaysEmpty

\* C7 amended: such an interval is always rejected and never validated as a
\* simple interval; the serializer-level error always carries the empty-array
\* message, and the model-level error is the empty-array message when the
\* interval has a name (without one, the missing name is reported).
C7_EmptySubIntervals ==
  LET iv == the_interval
  IN C7_Pre(iv) =>
       /\ (model_result # Pending =>
             /\ ModelRejected
             /\ model_result.msg \notin SimpleBranchMsgs
             /\ ("name" \in DOMAIN iv => model_result.msg = EmptyMsgModel)
             /\ ("name" \notin DOMAIN iv
                   => model_result.msg = "must have name"))
       /\ C7_SerializerSaysEmpty

\* Witness of C7: a named interval with an empty sub_intervals list and
\* otherwise valid repetitions, rejected by both validators.
C7_Witness ==
  /\ C7_Pre(the_interval)
  /\ "name" \in DOMAIN the_interval
  /\ valid_repetitions(the_interval)
  /\ ModelRejected /\ SerializerRejected

\* type and unit agree: time with a time unit, distance with a distance unit.
Consistent(d) ==
  \/ Get(d, "type") = StrV("time")
       /\ InStrs(Get(d, "unit"), {"seconds", "minutes", "hours"})
  \/ Get(d, "type") = StrV("distance")
       /\ InStrs(Get(d, "unit"), {"meters", "kilometers"})

\* C8: a simple interval, and a work phase, passes validation only if its
\* type is time with a unit among seconds, minutes, hours, or distance with
\* a unit among meters, kilometers.
C8_UnitTypeConsistency ==
  LET iv == the_interval
  IN (ModelAccepted \/ SerializerAccepted) =>
       IF ~has_sub_intervals(iv) THEN Consistent(iv)
       ELSE \A i \in 1..Len(iv["sub_intervals"].items) :
              "work" \in DOMAIN iv["sub_intervals"].items[i]
                => Consistent(iv["sub_intervals"].items[i]["work"])

WorkComplete(work) ==
  /\ {"name", "type", "duration_or_distance"} \subseteq DOMAIN work
  /\ IsNumber(work["duration_or_distance"])
  /\ work["duration_or_distance"].n > 0

RestComplete(rest) ==
  /\ {"name", "duration", "unit"} \subseteq DOMAIN rest
  /\ IsNumber(rest["duration"])
  /\ rest["duration"].n > 0

\* C21: within a sub-interval, a work phase without name, type or a
\* duration_or_distance that is a number greater than zero is rejected, and
\* so is a rest phase without name, unit or a duration that is a number
\* greater than zero, by both validators.
C21_PhasesOfSubInterval ==
  LET iv == the_interval
  IN nonempty_subs(iv) =>
       \A i \in 1..Len(iv["sub_intervals"].items) :
         (\/ /\ "work" \in DOMAIN iv["sub_intervals"].items[i]
             /\ ~WorkComplete(iv["sub_intervals"].items[i]["work"])
          \/ /\ "rest" \in DOMAIN iv["sub_intervals"].items[i]
             /\ ~RestComplete(iv["sub_intervals"].items[i]["rest"]))
           => /\ model_result # Pending => ModelRejected
              /\ serializer_result.done => SerializerRejected

-----------------------------------------------------------------------------
(* Dates.  A datetime is its day ordinal; the requests of the model carry  *)
(* no time of day, so every datetime is at midnight.                       *)

DateV(n) == [t |-> "datetime", n |-> n, s |-> ""]

\* The date strings of the model and their day ordinals (date.toordinal());
\* strptime and fromisoformat fail on any other string.
DateLiteral ==
  [k \in {"2022-01-01", "2024-05-10", "2024-06-01"} |->
     CASE k = "2022-01-01" -> 738156
       [] k = "2024-05-10" -> 739016
       [] k = "2024-06-01" -> 739038]

\* timezone.now(), as a day.
Today == DateLiteral["2024-06-01"]

parse_date(v) ==
  IF ~Truthy(v) THEN None
  ELSE LET stripped == Strip(v.s)
       IN IF stripped \in DOMAIN DateLiteral
          THEN DateV(DateLiteral[stripped]) ELSE None

combine_date_and_time(date_value, time_value) ==
  LET parsed_date == parse_date(date_value)
  IN IF ~Truthy(parsed_date) THEN None ELSE parsed_date

-----------------------------------------------------------------------------
(* Users and coach assignments.                                            *)

\* The accounts.User rows of the model, all active: id -> user_type.
Users == {1, 2, 3, 4}
user_type ==
  (1 :> "athlete") @@ (2 :> "athlete") @@ (3 :> "coach") @@ (4 :> "coach")

is_athlete(user) == user \in Users /\ user_type[user] = "athlete"
is_coach(user) == user \in Users /\ user_type[user] = "coach"

\* Mutant of get_by_coach: the mentees of any coach.
get_by_coach_of_any(coach, rows) ==
  {u \in Users : (\E a \in DOMAIN rows : a.is_active /\ a.mentee = u)
                 /\ user_type[u] = "athlete"}

\* User.objects.get_by_coach(coach): the athletes with an active assignment
\* to the coach.
get_by_coach(coach, rows) ==
  LET assigned_mentee_ids ==
        {a.mentee :
           a \in {x \in DOMAIN rows : x.coach = coach /\ x.is_active}}
  IN {u \in Users : u \in assigned_mentee_ids /\ user_type[u] = "athlete"}

-----------------------------------------------------------------------------
(* normalize_event_payload and the unified creation endpoint.              *)

\* The athlete id a payload names: int(athlete or athleteId), None when it
\* is absent, blank or not a number.
athlete_id_of(data) ==
  LET athlete_raw == PyOr(Get(data, "athlete"), Get(data, "athleteId"))
  IN IF athlete_raw \notin {None, StrV(""), StrV("null")}
     THEN LET number == IntOf(athlete_raw)
          IN IF number = ValueError THEN None ELSE number
     ELSE None

normalize_event_payload(data) ==
  LET event_type == Get(data, "type")
      title == Get(data, "title")
      athlete_id == athlete_id_of(data)
      trainingBlocks ==
        IF "trainingBlocks" \in DOMAIN data
        THEN data["trainingBlocks"].items ELSE <<>>
      start_value ==
        combine_date_and_time(
          PyOr(Get(data, "dateStart"), Get(data, "date")), None)
      end_value == combine_date_and_time(Get(data, "dateEnd"), None)
  IN CASE event_type = StrV("training") ->
            [event_type |-> "training",
             serializer_path |-> "TrainingSerializer",
             payload |->
               [title |-> PyOr(title, StrV("Training Session")),
                date |-> combine_date_and_time(
                           PyOr(Get(data, "date"), Get(data, "dateStart")),
                           Get(data, "time")),
                sport |-> PyOr(Get(data, "sport"), StrV("other")),
                training_data |-> normalize_training_blocks(trainingBlocks)],
             athlete_id |-> athlete_id]
       [] event_type = StrV("race") ->
            [event_type |-> "race",
             serializer_path |-> "RaceSerializer",
             payload |->
               [title |-> PyOr(title, StrV("Race Event")),
                date |-> combine_date_and_time(
                           PyOr(Get(data, "dateStart"), Get(data, "date")),
                           Get(data, "time")),
                sport |-> PyOr(Get(data, "sport"), StrV("other"))],
             athlete_id |-> athlete_id]
       [] event_type = StrV("custom") ->
            [event_type |-> "custom",
             serializer_path |-> "CustomEventSerializer",
             payload |->
               [title |-> PyOr(title, StrV("Custom Event")),
                date |-> start_value,
                date_end |->
                  IF end_value # None /\ Truthy(start_value)
                     /\ end_value.n < start_value.n
                  THEN start_value ELSE end_value],
             athlete_id |-> athlete_id]
       [] OTHER -> ValueError

\* The required-field checks of EventCreateSerializer.validate on the
\* normalized payload: the fields in error.
required_field_errors(event_type, payload) ==
  CASE event_type = "training" ->
         (IF ~Truthy(payload.date) THEN {"date"} ELSE {})
         \cup (IF ~Truthy(payload.sport) THEN {"sport"} ELSE {})
    [] event_type = "race" ->
         (IF ~Truthy(payload.date) THEN {"dateStart"} ELSE {})
         \cup (IF ~Truthy(payload.sport) THEN {"sport"} ELSE {})
    [] event_type = "custom" ->
         (IF ~Truthy(payload.date) THEN {"dateStart"} ELSE {})
         \cup (IF /\ Truthy(payload.date_end)
                  /\ Truthy(payload.date)
                  /\ payload.date_end.n < payload.date.n
               THEN {"dateEnd"} ELSE {})

\* validate() on the outcome of normalize_event_payload.
validate_normalized(normalized) ==
  IF normalized = ValueError THEN {"type"}
  ELSE required_field_errors(normalized.event_type, normalized.payload)

\* EventCreateSerializer.is_valid: the fields in error, {} when valid.  The
\* choice field `type` is validated before validate() runs.
EventCreateSerializer_validate(data) ==
  IF ~InStrs(Get(data, "type"), {"training", "race", "custom"})
  THEN {"type"}
  ELSE validate_normalized(normalize_event_payload(data))

Resolved(athlete) == [ok |-> TRUE, athlete |-> athlete, fields |-> {}]
Refused(field) == [ok |-> FALSE, athlete |-> 0, fields |-> {field}]

\* Mutant of determine_athlete: an athlete may name another user.
determine_athlete_as_named(user, athlete_id, rows) ==
  IF athlete_id # None /\ athlete_id.n \in Users
  THEN Resolved(athlete_id.n) ELSE Resolved(user)

\* EventCreateSerializer._determine_athlete
determine_athlete(user, athlete_id, rows) ==
  IF is_athlete(user) THEN Resolved(user)
  ELSE IF is_coach(user)
  THEN IF ~Truthy(athlete_id) THEN Refused("athlete")
       ELSE IF athlete_id.n \notin Users THEN Refused("athlete")
       ELSE IF athlete_id.n \notin get_by_coach(user, rows)
       THEN Refused("athlete")
       ELSE Resolved(athlete_id.n)
  ELSE Refused("detail")

SPORT_CHOICES == {"running", "cycling", "swimming", "strength", "other"}

\* The choice field `sport` of the Training and Race model serializers.
sport_errors(payload) ==
  IF InStrs(payload.sport, SPORT_CHOICES) THEN {} ELSE {"sport"}

\* TrainingSerializer.is_valid on the normalized payload: the fields in
\* error (the sport choice, validate_date, validate_training_data).
TrainingSerializer_is_valid(payload) ==
  sport_errors(payload)
  \cup (IF Truthy(payload.date) /\ payload.date.n < Today - 365
        THEN {"date"} ELSE {})
  \cup (IF TrainingSerializer_validate_training_data(payload.training_data)
           # <<>>
        THEN {"training_data"} ELSE {})

\* CustomEventSerializer.validate
CustomEventSerializer_validate(payload) ==
  IF /\ Truthy(payload.date) /\ Truthy(payload.date_end)
     /\ payload.date_end.n <= payload.date.n
  THEN {"non_field_errors"} ELSE {}

\* model_serializer.is_valid, by SERIALIZER_LOOKUP; RaceSerializer.validate
\* has nothing to refuse in a payload without finish_time.
model_serializer_is_valid(normalized) ==
  CASE normalized.serializer_path = "TrainingSerializer" ->
         TrainingSerializer_is_valid(normalized.payload)
    [] normalized.serializer_path = "CustomEventSerializer" ->
         CustomEventSerializer_validate(normalized.payload)
    [] OTHER -> sport_errors(normalized.payload)

\* CustomEvent.clean
CustomEvent_clean(payload) ==
  ~(Truthy(payload.date_end) /\ payload.date_end.n < payload.date.n)

\* Mutant of Event_clean: any user may own an event.
Event_clean_any(athlete) == TRUE

\* Event.clean: the athlete of an event has user_type athlete.
Event_clean(athlete) == is_athlete(athlete)

\* Event.save: full_clean runs Event.clean and the clean of the subclass
\* (Training.clean, CustomEvent.clean; Race.clean has nothing to refuse in
\* a row without finish_time); {} when the row is saved.
Event_save(normalized, athlete) ==
  (IF ~Event_clean(athlete) THEN {"__all__"} ELSE {})
  \cup (IF /\ normalized.event_type = "training"
           /\ Training_clean(normalized.payload.training_data) # OK
        THEN {"__all__"} ELSE {})
  \cup (IF /\ normalized.event_type = "custom"
           /\ ~CustomEvent_clean(normalized.payload)
        THEN {"__all__"} ELSE {})

\* 201 with the saved instance: its type, athlete, date, and the date_end of
\* a custom event or the sport of a training or race.
Created(normalized, athlete) ==
  [status |-> 201, fields |-> {}, kind |-> normalized.event_type,
   athlete |-> athlete, date |-> normalized.payload.date,
   date_end |-> IF normalized.event_type = "custom"
                THEN normalized.payload.date_end ELSE None,
   sport |-> IF normalized.event_type = "custom"
             THEN None ELSE normalized.payload.sport]
BadRequest(fields) ==
  [status |-> 400, fields |-> fields, kind |-> "", athlete |-> 0,
   date |-> None, date_end |-> None, sport |-> None]

\* raise ValidationError(errors) when there are errors, else go on.
Respond(errors, otherwise) ==
  IF errors # {} THEN BadRequest(errors) ELSE otherwise

\* The end of EventCreateSerializer.create: the model serializer validates
\* the payload and saves the row for the resolved athlete.
model_serializer_save(normalized, athlete) ==
  Respond(model_serializer_is_valid(normalized),
          Respond(Event_save(normalized, athlete),
                  Created(normalized, athlete)))

create_for(normalized, resolved) ==
  IF ~resolved.ok THEN BadRequest(resolved.fields)
  ELSE model_serializer_save(normalized, resolved.athlete)

\* EventCreateSerializer.create
EventCreateSerializer_create(user, normalized, rows) ==
  create_for(normalized,
             determine_athlete(user, normalized.athlete_id, rows))

\* EventViewSet.create for the authenticated user `actor`: the response.
create_event(actor, data, rows) ==
  Respond(EventCreateSerializer_validate(data),
          EventCreateSerializer_create(actor, normalize_event_payload(data),
                                       rows))

\* The row an accepted request persists.
EventRow(created) ==
  [kind |-> created.kind, athlete |-> created.athlete,
   date |-> created.date, date_end |-> created.date_end,
   sport |-> created.sport]

-----------------------------------------------------------------------------
(* SpecEvents: athletes grant and withdraw coach access, and users post    *)
(* create_event requests.                                                  *)

\* A payload key that is absent or takes one of `vals`.
OneOf(k, vals) == {(k :> v) : v \in vals} \cup {EmptyDict}

HoursWarmup ==
  [type |-> StrV("warmup"), duration |-> StrV("10"),
   durationUnit |-> StrV("hr")]

\* Requests that vary the athlete named, over every type.
AthletePayloads ==
  {p \in {ty @@ a @@ i @@ d @@ b :
            ty \in {("type" :> StrV(x)) :
                      x \in {"training", "race", "custom", "meeting"}},
            a \in OneOf("athlete", {StrV("1"), StrV("9")}),
            i \in OneOf("athleteId", {StrV("2")}),
            d \in OneOf("date", {StrV("2022-01-01"), StrV("2024-05-10")}),
            b \in OneOf("trainingBlocks", {ListV(<<HoursWarmup>>)})} :
     "trainingBlocks" \in DOMAIN p => p["type"] = StrV("training")}

\* Custom events that vary the start and the end: no end, an end before the
\* start, on the day of the start, and after it.
DatePayloads ==
  {("type" :> StrV("custom")) @@ a @@ ds @@ de :
     a \in OneOf("athlete", {StrV("1")}),
     ds \in OneOf("dateStart", {StrV("2024-05-10")}),
     de \in OneOf("dateEnd", {StrV("2022-01-01"), StrV("2024-05-10"),
                              StrV("2024-06-01")})}

\* Trainings that vary the date and the sport: no sport, a blank one, one of
\* the choices, and one that is not a choice.
SportPayloads ==
  {("type" :> StrV("training")) @@ a @@ d @@ sp :
     a \in OneOf("athlete", {StrV("1")}),
     d \in OneOf("date", {StrV("2024-05-10")}),
     sp \in OneOf("sport", {StrV(""), StrV("running"), StrV("chess")})}

Payloads == AthletePayloads \cup DatePayloads \cup SportPayloads

\* The users who post requests, those who grant access, and the users whose
\* coach_id they enter.
Actors == {1, 3}
Mentees == {1, 3}
Coaches == {3, 4}

CoachAssignmentRow(mentee, coach) ==
  [mentee |-> mentee, coach |-> coach, is_active |-> TRUE]

\* CoachAssignment.objects.filter(mentee=..., coach=..., is_active=True)
active_assignments(table, mentee, coach) ==
  {a \in DOMAIN table :
     a.mentee = mentee /\ a.coach = coach /\ a.is_active}

\* CoachAssignment.clean: no self-assignment.
CoachAssignment_clean(row) == row.mentee # row.coach

\* Mutant of violates_unique_active: the constraint is not enforced.
violates_unique_never(table, row) == FALSE

\* The constraint unique_active_coach_assignment: unique (mentee, coach)
\* among the active rows.
violates_unique_active(table, row) ==
  row.is_active /\ active_assignments(table, row.mentee, row.coach) # {}

\* CoachAssignment.save: full_clean, then the insert.
CoachAssignment_saved(table, row) ==
  CoachAssignment_clean(row) /\ ~violates_unique_active(table, row)

\* CoachAssignment.objects.create: the table afterwards, unchanged when the
\* save raises.
CoachAssignment_objects_create(table, row) ==
  IF CoachAssignment_saved(table, row) THEN Insert(table, row) ELSE table

\* User.add_coach_access run without interruption: nothing changes when the
\* coach already has access, nor when the save raises (the error is caught
\* and reported in the result).
AddCoachAccess(mentee, coach) ==
  /\ pc \in {"events", "ownership", "access"}
  /\ assignments' =
       IF active_assignments(assignments, mentee, coach) # {}
       THEN assignments
       ELSE CoachAssignment_objects_create(
              assignments, CoachAssignmentRow(mentee, coach))
  /\ UNCHANGED <<events, request, response, pc>>
  /\ UNCHANGED <<normVars, parseVars, profileVars, coachVars,
               accountVars>>

\* User.remove_coach: the active assignments of the pair are deleted.
RemoveCoach(mentee, coach) ==
  /\ pc \in {"events", "ownership", "coaching"}
  /\ assignments' =
       Delete(assignments, active_assignments(assignments, mentee, coach))
  /\ UNCHANGED <<events, request, response, pc>>
  /\ UNCHANGED <<normVars, parseVars, profileVars, coachVars,
               accountVars>>

\* POST /events/ by `actor`.
CreateEvent(actor, data) ==
  /\ pc \in {"events", "ownership", "access"}
  /\ request' = [actor |-> actor, data |-> data, path |-> "events"]
  /\ response' = create_event(actor, data, assignments)
  /\ events' = IF response'.status = 201
               THEN Append(events, EventRow(response')) ELSE events
  /\ UNCHANGED <<assignments, pc>>
  /\ UNCHANGED <<normVars, parseVars, profileVars, coachVars,
               accountVars>>

InitSpecEvents ==
  pc = "events" /\ InitNorm /\ InitEvents /\ InitParse /\ InitProfiles

NextEvents ==
  \/ \E m \in Mentees : \E c \in Coaches : AddCoachAccess(m, c)
  \/ \E m \in Mentees : \E c \in Coaches : RemoveCoach(m, c)
  \/ /\ Len(events) < MaxEvents
     /\ \E u \in Actors : \E data \in Payloads : CreateEvent(u, data)

SpecEvents == InitSpecEvents /\ [][NextEvents]_vars

-----------------------------------------------------------------------------
(* Claims about create_event (under SpecEvents).                           *)

\* The request names an athlete of the acting coach's active assignments.
\* (Below, a step that leaves the assignments alone and changes the state
\* is the handling of a request.)
ActivelyAssigned(asg, coach) ==
  {a.mentee : a \in {x \in DOMAIN asg : x.coach = coach /\ x.is_active}}

NamedByCoach(asg, req) ==
  /\ athlete_id_of(req.data) # None
  /\ athlete_id_of(req.data).n \in ActivelyAssigned(asg, req.actor)

C3_Success ==
  response'.status = 201 =>
    /\ NamedByCoach(assignments, request')
    /\ response'.athlete = athlete_id_of(request'.data).n
    /\ Len(events') = Len(events) + 1
    /\ events'[Len(events')].kind = response'.kind
    /\ events'[Len(events')].athlete = athlete_id_of(request'.data).n

\* C3 as stated: a coach's create_event succeeds only for a named athlete of
\* the coach's active assignments, and then persists a record of that
\* athlete; with a missing, unknown or unassigned athlete it fails with an
\* error on the athlete field and persists nothing.
C3_CoachNeedsAssignedAthlete_Original ==
  [][(assignments' = assignments /\ is_coach(request'.actor)) =>
       /\ C3_Success
       /\ ~NamedByCoach(assignments, request') =>
            /\ response'.status = 400
            /\ response'.fields = {"athlete"}
            /\ events' = events]_vars

\* C3 amended: as stated, except that the error is on the athlete field
\* when the payload passes the dispatcher's own validation (supported type,
\* resolvable date); otherwise the call fails on the fields that validation
\* refuses, before the athlete is looked at.  Nothing is persisted either
\* way.
C3_CoachNeedsAssignedAthlete ==
  [][(assignments' = assignments /\ is_coach(request'.actor)) =>
       /\ C3_Success
       /\ ~NamedByCoach(assignments, request') =>
            /\ response'.status = 400
            /\ events' = events
            /\ response'.fields =
                 IF EventCreateSerializer_validate(request'.data) = {}
                 THEN {"athlete"}
                 ELSE EventCreateSerializer_validate(request'.data)]_vars

\* Witness of C3: a coach with an assigned athlete is refused, on the
\* athlete field, an event for an existing athlete not assigned to them.
C3_Witness ==
  /\ is_coach(request.actor)
  /\ ActivelyAssigned(assignments, request.actor) # {}
  /\ athlete_id_of(request.data) # None
  /\ is_athlete(athlete_id_of(request.data).n)
  /\ ~NamedByCoach(assignments, request)
  /\ response.status = 400
  /\ response.fields = {"athlete"}
  /\ events = <<>>

\* The payload with its athlete and athleteId keys replaced.
WithAthlete(data, a, i) ==
  a @@ i @@ [k \in DOMAIN data \ {"athlete", "athleteId"} |-> data[k]]

\* C4: an athlete's event always belongs to the acting athlete, and the
\* response to the request is the same whatever the payload's athlete and
\* athleteId keys hold (absent, own id, another user's id).
C4_AthleteOwnsEvent ==
  [][(assignments' = assignments /\ is_athlete(request'.actor)) =>
       /\ response'.status = 201 =>
            /\ response'.athlete = request'.actor
            /\ Len(events') = Len(events) + 1
            /\ events'[Len(events')].kind = response'.kind
            /\ events'[Len(events')].athlete = request'.actor
       /\ \A a \in OneOf("athlete", {StrV("1"), StrV("2"), StrV("3")}) :
            \A i \in OneOf("athleteId", {StrV("1"), StrV("2")}) :
              create_event(request'.actor,
                           WithAthlete(request'.data, a, i), assignments)
                = response']_vars

\* Witness of C4: an athlete's request naming another user was accepted and
\* the persisted record belongs to the actor.
C4_Witness ==
  /\ is_athlete(request.actor)
  /\ athlete_id_of(request.data) # None
  /\ athlete_id_of(request.data).n \in Users \ {request.actor}
  /\ response.status = 201
  /\ events # <<>>
  /\ events[Len(events)].athlete = request.actor

\* The requester may create the event: an athlete, or a coach naming an
\* athlete of their active assignments.
Permitted(asg, req) ==
  \/ is_athlete(req.actor)
  \/ /\ is_coach(req.actor)
     /\ NamedByCoach(asg, req)
     /\ is_athlete(athlete_id_of(req.data).n)

\* The calendar day a payload key holds, 0 when it holds none.
DayOf(data, key) ==
  IF key \in DOMAIN data /\ data[key].s \in DOMAIN DateLiteral
  THEN DateLiteral[data[key].s] ELSE 0

CustomWithDays(data) ==
  /\ Get(data, "type") = StrV("custom")
  /\ DayOf(data, "dateStart") > 0
  /\ DayOf(data, "dateEnd") > 0

\* C12: a custom event posted to the unified endpoint by a permitted user
\* with dateStart and dateEnd on the same calendar day is created (201) and
\* the persisted date_end is strictly later than the persisted date.
C12_SameDayCustomEventExtended ==
  [][(/\ assignments' = assignments
      /\ Permitted(assignments, request')
      /\ CustomWithDays(request'.data)
      /\ DayOf(request'.data, "dateEnd") = DayOf(request'.data, "dateStart"))
     => /\ response'.status = 201
        /\ response'.kind = "custom"
        /\ Len(events') = Len(events) + 1
        /\ events'[Len(events')].date_end # None
        /\ events'[Len(events')].date_end.n > events'[Len(events')].date.n
    ]_vars

\* The errors that refuse a custom event for its range of dates: dateEnd
\* (EventCreateSerializer.validate), non_field_errors
\* (CustomEventSerializer.validate), __all__ (CustomEvent.clean).
RangeErrors == {"dateEnd", "non_field_errors", "__all__"}

\* C13: for a custom event whose end date is present and earlier than its
\* start date, the normalized payload has date_end clamped to date (never
\* earlier than date), and the request of a permitted user is not rejected
\* for its range of dates.
C13_InvertedRangeClamped ==
  [][(/\ assignments' = assignments
      /\ Permitted(assignments, request')
      /\ CustomWithDays(request'.data)
      /\ DayOf(request'.data, "dateEnd") < DayOf(request'.data, "dateStart"))
     => /\ normalize_event_payload(request'.data).payload.date_end
             = normalize_event_payload(request'.data).payload.date
        /\ response'.fields \cap RangeErrors = {}
    ]_vars

\* The payload supplies a date that resolves / a sport that is not blank.
DateResolvable(data) == DayOf(data, "date") > 0 \/ DayOf(data, "dateStart") > 0
SportSupplied(data) == "sport" \in DOMAIN data /\ data["sport"].s # ""

\* C14: a create_event request of type training whose date cannot be
\* resolved, or whose sport is missing or blank, is rejected and persists
\* nothing; a training request is accepted only when it supplies both a
\* resolvable date and a sport.
C14_TrainingNeedsDateAndSport ==
  [][(/\ assignments' = assignments
      /\ Get(request'.data, "type") = StrV("training"))
     => /\ (~DateResolvable(request'.data) \/ ~SportSupplied(request'.data))
             => (response'.status = 400 /\ events' = events)
        /\ response'.status = 201
             => (DateResolvable(request'.data) /\ SportSupplied(request'.data))
    ]_vars

-----------------------------------------------------------------------------
(* parse_minutes_duration.  A string is the sequence of its characters;    *)
(* a timedelta is its number of seconds.                                   *)

TimedeltaV(seconds) == [t |-> "timedelta", n |-> seconds, s |-> ""]

DigitValue ==
  [c \in {"0", "1", "2", "3", "4", "5", "6", "7", "8", "9"} |->
     CASE c = "0" -> 0 [] c = "1" -> 1 [] c = "2" -> 2 [] c = "3" -> 3
       [] c = "4" -> 4 [] c = "5" -> 5 [] c = "6" -> 6 [] c = "7" -> 7
       [] c = "8" -> 8 [] c = "9" -> 9]

\* char.isdigit()
isdigit(char) == char \in DOMAIN DigitValue

\* part.isdigit(): every character is a digit, and there is one.
all_digits(part) ==
  part # <<>> /\ \A i \in 1..Len(part) : isdigit(part[i])

\* int(digits) of a non-empty string of digits.
RECURSIVE int_of_digits(_)
int_of_digits(digits) ==
  IF digits = <<>> THEN 0
  ELSE int_of_digits(SubSeq(digits, 1, Len(digits) - 1)) * 10
       + DigitValue[digits[Len(digits)]]

\* char.upper() on the characters of the model.
upper(char) == IF char = "p" THEN "P" ELSE char

\* s.strip()
RECURSIVE strip(_)
strip(str) ==
  IF str = <<>> THEN str
  ELSE IF Head(str) = " " THEN strip(Tail(str))
  ELSE IF str[Len(str)] = " " THEN strip(SubSeq(str, 1, Len(str) - 1))
  ELSE str

\* value.split(key)[0]: the part before the first key, the whole string
\* when the key does not occur.
split_first(str, key) ==
  LET at == {i \in 1..Len(str) : str[i] = key}
  IN IF at = {} THEN str ELSE SubSeq(str, 1, Min(at) - 1)

\* value.split(sep)
RECURSIVE split(_, _)
split(str, sep) ==
  LET at == {i \in 1..Len(str) : str[i] = sep}
  IN IF at = {} THEN <<str>>
     ELSE <<SubSeq(str, 1, Min(at) - 1)>>
          \o split(SubSeq(str, Min(at) + 1, Len(str)), sep)

\* _extract_first_int: the digits of the part before the first key, joined.
extract_first_int(str, key) ==
  LET segment == split_first(str, key)
      digits == SelectSeq(segment, isdigit)
  IN IF digits # <<>> THEN int_of_digits(digits) ELSE 0

\* hours * 3600 + minutes * 60 + seconds, None unless positive.
positive_timedelta(hours, minutes, seconds) ==
  LET total_seconds == hours * 3600 + minutes * 60 + seconds
  IN IF total_seconds > 0 THEN TimedeltaV(total_seconds) ELSE None

\* Mutant of float_of: the sign is dropped.
float_of_unsigned(str) ==
  LET digits == IF str # <<>> /\ Head(str) = "-" THEN Tail(str) ELSE str
  IN IF digits # <<>> /\ \A i \in 1..Len(digits) : isdigit(digits[i])
     THEN FloatV(int_of_digits(digits)) ELSE ValueError

\* float(value) on the characters of the model (digits, sign, letters,
\* colon, inner space): a number for an optionally signed string of digits,
\* and for an optionally signed nan, inf or infinity.
float_of(str) ==
  LET negative == str # <<>> /\ Head(str) = "-"
      digits == IF negative THEN Tail(str) ELSE str
  IN IF all_digits(digits)
     THEN FloatV(IF negative THEN 0 - int_of_digits(digits)
                 ELSE int_of_digits(digits))
     ELSE IF digits = <<"n", "a", "n">> THEN NaN
     ELSE IF digits \in {<<"i", "n", "f">>,
                         <<"i", "n", "f", "i", "n", "i", "t", "y">>}
     THEN IF negative THEN NegInf ELSE Inf
     ELSE ValueError

\* minutes_value <= 0
not_positive(minutes_value) ==
  CASE minutes_value = NaN -> FALSE
    [] minutes_value = Inf -> FALSE
    [] minutes_value = NegInf -> TRUE
    [] OTHER -> minutes_value.n <= 0

\* timedelta(minutes=minutes_value): the conversion of a float that is not
\* finite raises.
timedelta_of_minutes(minutes_value) ==
  CASE minutes_value = NaN -> ValueError
    [] minutes_value \in {Inf, NegInf} -> OverflowError
    [] OTHER -> TimedeltaV(minutes_value.n * 60)

parse_minutes_duration(duration) ==
  IF duration = <<>> THEN None
  ELSE LET str == strip(duration)
           parts == split(str, ":")
           minutes_value == float_of(str)
       IN IF str = <<>> THEN None
          ELSE IF upper(Head(str)) = "P"
          THEN positive_timedelta(extract_first_int(str, "H"),
                                  extract_first_int(str, "M"),
                                  extract_first_int(str, "S"))
          ELSE IF /\ Len(parts) \in 2..3
                  /\ \A i \in 1..Len(parts) : all_digits(parts[i])
          THEN IF Len(parts) = 2
               THEN positive_timedelta(0, int_of_digits(parts[1]),
                                       int_of_digits(parts[2]))
               ELSE positive_timedelta(int_of_digits(parts[1]),
                                       int_of_digits(parts[2]),
                                       int_of_digits(parts[3]))
          ELSE IF minutes_value = ValueError THEN None
          ELSE IF not_positive(minutes_value) THEN None
          ELSE timedelta_of_minutes(minutes_value)

-----------------------------------------------------------------------------
(* SpecParse: a duration string is typed, one character at a time, from    *)
(* nothing or from one of the documented examples, and then parsed.        *)

Alphabet ==
  {"P", "p", "T", "H", "M", "S", "0", "1", "3", "5", ":", "-", " "}

Examples ==
  { <<>>,
    <<"P", "T", "1", "H", "3", "0", "M">>,
    <<"0", "5", ":", "3", "0">>,
    <<"4", "5">>,
    <<"-", "5">> }

Type(char) ==
  /\ pc = "type"
  /\ Len(value) < MaxLen
  /\ value' = Append(value, char)
  /\ UNCHANGED <<parsed, pc>>
  /\ UNCHANGED <<normVars, eventVars, profileVars, coachVars,
               accountVars>>

Parse ==
  /\ pc = "type"
  /\ parsed' = parse_minutes_duration(value)
  /\ pc' = "parsed"
  /\ UNCHANGED value
  /\ UNCHANGED <<normVars, eventVars, profileVars, coachVars,
               accountVars>>

InitSpecParse ==
  /\ pc = "type"
  /\ value \in Examples
  /\ parsed = None
  /\ InitNorm /\ InitEvents /\ InitProfiles

NextParse ==
  \/ \E char \in Alphabet : Type(char)
  \/ Parse

SpecParse == InitSpecParse /\ [][NextParse]_vars

-----------------------------------------------------------------------------
(* Claims about parse_minutes_duration (under SpecParse).                  *)

\* The integer written directly before the first `key` of the string: the
\* longest run of digits that ends there; 0 without the key or the digits.
IntegerBefore(str, key) ==
  LET at == {i \in 1..Len(str) : str[i] = key}
      k == Min(at)
      starts == {j \in 1..k : \A i \in j..(k - 1) : isdigit(str[i])}
  IN IF at = {} THEN 0
     ELSE int_of_digits(SubSeq(str, Min(starts), k - 1))

\* C10: for a duration string beginning with P, the result is
\* hours * 3600 + minutes * 60 + seconds with each number the integer
\* directly before its token H, M, S (0 without the token), or None when
\* that total is not positive; "PT1H30M" gives 5400 seconds.
C10_IsoDurationTokens ==
  (pc = "parsed" /\ value # <<>> /\ Head(value) = "P") =>
    parsed = positive_timedelta(IntegerBefore(value, "H"),
                                IntegerBefore(value, "M"),
                                IntegerBefore(value, "S"))


\* A numeral: one or more decimal digits.
IsNumeral(str) ==
  str # <<>> /\ \A i \in 1..Len(str) : str[i] \in DOMAIN DigitValue

\* The reading of a duration string that is not in the P form: MM:SS,
\* HH:MM:SS, else a bare number of minutes; None when it is empty,
\* unparsable or not positive.  Surrounding blanks do not count.
ColonOrMinutes(str) ==
  LET text == strip(str)
      at == {i \in 1..Len(text) : text[i] = ":"}
      first == Min(at)
      rest == SubSeq(text, first + 1, Len(text))
      at2 == {i \in 1..Len(rest) : rest[i] = ":"}
      second == Min(at2)
      Seconds(total) == IF total > 0 THEN TimedeltaV(total) ELSE None
  IN CASE text = <<>> -> None
       [] Cardinality(at) = 1 /\ IsNumeral(SubSeq(text, 1, first - 1))
            /\ IsNumeral(rest) ->
            Seconds(int_of_digits(SubSeq(text, 1, first - 1)) * 60
                    + int_of_digits(rest))
       [] Cardinality(at) = 2 /\ IsNumeral(SubSeq(text, 1, first - 1))
            /\ IsNumeral(SubSeq(rest, 1, second - 1))
            /\ IsNumeral(SubSeq(rest, second + 1, Len(rest))) ->
            Seconds(int_of_digits(SubSeq(text, 1, first - 1)) * 3600
                    + int_of_digits(SubSeq(rest, 1, second - 1)) * 60
                    + int_of_digits(SubSeq(rest, second + 1, Len(rest))))
       [] IsNumeral(text) -> Seconds(int_of_digits(text) * 60)
       [] OTHER -> None

-----------------------------------------------------------------------------
(* SpecCoaching: add_coach_access, add_coach and remove_coach called by    *)
(* requests served at the same time.  add_coach_access is two steps: the   *)
(* look-up of an existing connection, then the create.                     *)

\* The coach_id codes entered: those of users, and one of nobody.
CoachIdCodes == Coaches \cup {9}

Returned(op, mentee, coach, outcome) ==
  [op |-> op, mentee |-> mentee, coach |-> coach, outcome |-> outcome]

\* add_coach_access up to the look-up of `existing`: an unknown code and an
\* existing connection return at once; otherwise the call goes on to create.
CheckCoachAccess(slot, mentee, coach_id_code) ==
  /\ pc = "coaching"
  /\ calls[slot] = NoCall
  /\ IF coach_id_code \notin Users
     THEN /\ result' = Returned("add_coach_access", mentee, coach_id_code,
                                "not_found")
          /\ UNCHANGED calls
     ELSE IF active_assignments(assignments, mentee, coach_id_code) # {}
     THEN /\ result' = Returned("add_coach_access", mentee, coach_id_code,
                                "already_connected")
          /\ UNCHANGED calls
     ELSE /\ calls' = [calls EXCEPT ![slot] =
                         [mentee |-> mentee, coach |-> coach_id_code]]
          /\ UNCHANGED result
  /\ UNCHANGED <<assignments, events, request, response, pc>>
  /\ UNCHANGED <<normVars, parseVars, profileVars, accountVars>>

\* The rest of add_coach_access: CoachAssignment.objects.create, whose
\* errors are caught and reported.
CreateCoachAccess(slot) ==
  /\ pc = "coaching"
  /\ calls[slot] # NoCall
  /\ LET row == CoachAssignmentRow(calls[slot].mentee, calls[slot].coach)
     IN /\ assignments' = CoachAssignment_objects_create(assignments, row)
        /\ result' = Returned("add_coach_access", row.mentee, row.coach,
                              IF CoachAssignment_saved(assignments, row)
                              THEN "created" ELSE "error")
  /\ calls' = [calls EXCEPT ![slot] = NoCall]
  /\ UNCHANGED <<events, request, response, pc>>
  /\ UNCHANGED <<normVars, parseVars, profileVars, accountVars>>

\* User.add_coach: objects.create is given assignment_type, which is no
\* field of CoachAssignment, so the model constructor raises TypeError
\* before anything is saved.
AddCoach(mentee, coach_user) ==
  /\ pc = "coaching"
  /\ result' = Returned("add_coach", mentee, coach_user, "TypeError")
  /\ UNCHANGED <<assignments, calls, events, request, response, pc>>
  /\ UNCHANGED <<normVars, parseVars, profileVars, accountVars>>

InitSpecCoaching ==
  pc = "coaching" /\ InitNorm /\ InitEvents /\ InitParse /\ InitProfiles

NextCoaching ==
  \/ \E slot \in Slots : \E m \in Mentees : \E c \in CoachIdCodes :
       CheckCoachAccess(slot, m, c)
  \/ \E slot \in Slots : CreateCoachAccess(slot)
  \/ \E m \in Mentees : \E c \in Coaches : AddCoach(m, c)
  \/ \E m \in Mentees : \E c \in Coaches : RemoveCoach(m, c)

SpecCoaching == InitSpecCoaching /\ [][NextCoaching]_vars

-----------------------------------------------------------------------------
(* Claims about coach assignments (under SpecCoaching).                    *)

Connected(table, mentee, coach) ==
  \E a \in DOMAIN table :
    a.mentee = mentee /\ a.coach = coach /\ a.is_active

\* The number of active rows of a pair.
ActiveCount(table, mentee, coach) ==
  IF Connected(table, mentee, coach)
  THEN table[[mentee |-> mentee, coach |-> coach, is_active |-> TRUE]]
  ELSE 0

AtMostOneActive(table) ==
  \A m, c \in Users : ActiveCount(table, m, c) <= 1

NoSelfAssignment(table) == \A a \in DOMAIN table : a.mentee # a.coach

\* C16: whatever the interleaving of add_coach_access, add_coach and
\* remove_coach calls, there is at most one active CoachAssignment per
\* (mentee, coach) pair and no assignment of a user to themselves; and an
\* add_coach_access for a pair that is already connected creates nothing and
\* reports already_connected.
C16_UniqueActiveAssignment ==
  [][/\ AtMostOneActive(assignments')
     /\ NoSelfAssignment(assignments')
     /\ \A slot \in Slots :
          (calls[slot] = NoCall /\ calls'[slot] # NoCall)
            => ~Connected(assignments, calls'[slot].mentee,
                          calls'[slot].coach)
     /\ (/\ result' # result
         /\ calls' = calls
         /\ result'.op = "add_coach_access"
         /\ Connected(assignments, result'.mentee, result'.coach))
        => /\ result'.outcome = "already_connected"
           /\ assignments' = assignments
    ]_vars

\* Witness of C16: two calls for the same pair were both past the look-up;
\* one created the connection and the other was then refused by the
\* constraint, leaving one active row.
C16_Witness ==
  /\ pc = "coaching"
  /\ result.op = "add_coach_access"
  /\ result.outcome = "error"
  /\ result.mentee # result.coach
  /\ ActiveCount(assignments, result.mentee, result.coach) = 1

-----------------------------------------------------------------------------
(* Accounts: registration and the profile API (AthleticProfileViewSet,     *)
(* ProfessionalProfileViewSet, both ModelViewSets registered on the        *)
(* router: create, update, partial_update and destroy are routed).  A      *)
(* profile row is [user, experience_years]; user is a one-to-one key.      *)

\* The values a request gives experience_years.
ExperienceYears == {IntV(0), IntV(5)}

ProfileRow(user, experience_years) ==
  [user |-> user, experience_years |-> experience_years]

has_profile(rows, user) == \E row \in rows : row.user = user

\* Manager.get_or_create(user=instance, defaults=...)
get_or_create(rows, user, experience_years) ==
  IF has_profile(rows, user) THEN rows
  ELSE rows \cup {ProfileRow(user, experience_years)}

\* AthleticProfileViewSet.get_queryset
AthleticProfileViewSet_get_queryset(actor) ==
  IF is_athlete(actor)
  THEN {row \in athletic_profiles : row.user = actor}
  ELSE IF is_coach(actor)
  THEN {row \in athletic_profiles :
          row.user \in get_by_coach(actor, assignments)}
  ELSE {}

\* ProfessionalProfileViewSet.get_queryset
ProfessionalProfileViewSet_get_queryset(actor) ==
  IF is_coach(actor)
  THEN {row \in professional_profiles : row.user = actor}
  ELSE IF is_athlete(actor)
  THEN {row \in professional_profiles :
          \E a \in DOMAIN assignments :
            a.mentee = actor /\ a.is_active /\ a.coach = row.user}
  ELSE {}

\* IsAthleteOwner.has_object_permission / IsCoachOwner.has_object_permission
IsAthleteOwner(actor, obj) ==
  is_athlete(obj.user) /\ actor = obj.user /\ is_athlete(actor)
IsCoachOwner(actor, obj) ==
  is_coach(obj.user) /\ actor = obj.user /\ is_coach(actor)

\* The serializer's `user` field on create: required, an existing user, and
\* (one-to-one) one without a profile in the table.
user_field_valid(rows, named) == named \in users /\ ~has_profile(rows, named)

\* The same on update: when given, an existing user without another profile
\* than the one updated.
user_field_valid_for(rows, obj, named) ==
  named = 0 \/ (named \in users /\ ~has_profile(rows \ {obj}, named))

\* serializer.save(user=request.user) of perform_create: the unique key on
\* user refuses a second profile of the same user (IntegrityError).
save_profile(rows, user, experience_years) ==
  IF has_profile(rows, user) THEN rows
  ELSE rows \cup {ProfileRow(user, experience_years)}

\* serializer.save() of an update: the row with its new fields.
updated_profile(obj, named, experience_years) ==
  ProfileRow(IF named = 0 THEN obj.user ELSE named, experience_years)

\* post_save of a created User: create_user_profiles.
Register(user) ==
  /\ pc = "accounts"
  /\ user \notin users
  /\ users' = users \cup {user}
  /\ athletic_profiles' = get_or_create(athletic_profiles, user, IntV(0))
  /\ professional_profiles' = get_or_create(professional_profiles, user, None)
  /\ UNCHANGED <<pc, normVars, eventVars, parseVars, coachVars,
               accountVars>>

\* POST /athletic-profiles/ by `actor` with user = named.
CreateAthleticProfile(actor, named, years) ==
  /\ pc = "accounts"
  /\ actor \in users
  /\ athletic_profiles' =
       IF user_field_valid(athletic_profiles, named) /\ is_athlete(actor)
       THEN save_profile(athletic_profiles, actor, years)
       ELSE athletic_profiles
  /\ UNCHANGED <<users, professional_profiles>>
  /\ UNCHANGED <<pc, normVars, eventVars, parseVars, coachVars,
               accountVars>>

\* PUT or PATCH /athletic-profiles/<pk>/ by `actor` on the profile of
\* `owner`; named = 0 when the request gives no user.
UpdateAthleticProfile(actor, owner, named, years) ==
  /\ pc = "accounts"
  /\ actor \in users
  /\ athletic_profiles' =
       IF \E obj \in AthleticProfileViewSet_get_queryset(actor) :
            /\ obj.user = owner
            /\ IsAthleteOwner(actor, obj)
            /\ user_field_valid_for(athletic_profiles, obj, named)
       THEN LET obj == CHOOSE row \in athletic_profiles : row.user = owner
            IN (athletic_profiles \ {obj})
                 \cup {updated_profile(obj, named, years)}
       ELSE athletic_profiles
  /\ UNCHANGED <<users, professional_profiles>>
  /\ UNCHANGED <<pc, normVars, eventVars, parseVars, coachVars,
               accountVars>>

\* DELETE /athletic-profiles/<pk>/ by `actor` on the profile of `owner`.
DestroyAthleticProfile(actor, owner) ==
  /\ pc = "accounts"
  /\ actor \in users
  /\ athletic_profiles' =
       athletic_profiles \
         {obj \in AthleticProfileViewSet_get_queryset(actor) :
            obj.user = owner /\ IsAthleteOwner(actor, obj)}
  /\ UNCHANGED <<users, professional_profiles>>
  /\ UNCHANGED <<pc, normVars, eventVars, parseVars, coachVars,
               accountVars>>

\* POST /professional-profiles/ by `actor` with user = named.
CreateProfessionalProfile(actor, named, years) ==
  /\ pc = "accounts"
  /\ actor \in users
  /\ professional_profiles' =
       IF user_field_valid(professional_profiles, named) /\ is_coach(actor)
       THEN save_profile(professional_profiles, actor, years)
       ELSE professional_profiles
  /\ UNCHANGED <<users, athletic_profiles>>
  /\ UNCHANGED <<pc, normVars, eventVars, parseVars, coachVars,
               accountVars>>

\* PUT or PATCH /professional-profiles/<pk>/ by `actor`.
UpdateProfessionalProfile(actor, owner, named, years) ==
  /\ pc = "accounts"
  /\ actor \in users
  /\ professional_profiles' =
       IF \E obj \in ProfessionalProfileViewSet_get_queryset(actor) :
            /\ obj.user = owner
            /\ IsCoachOwner(actor, obj)
            /\ user_field_valid_for(professional_profiles, obj, named)
       THEN LET obj == CHOOSE row \in professional_profiles : row.user = owner
            IN (professional_profiles \ {obj})
                 \cup {updated_profile(obj, named, years)}
       ELSE professional_profiles
  /\ UNCHANGED <<users, athletic_profiles>>
  /\ UNCHANGED <<pc, normVars, eventVars, parseVars, coachVars,
               accountVars>>

\* DELETE /professional-profiles/<pk>/ by `actor`.
DestroyProfessionalProfile(actor, owner) ==
  /\ pc = "accounts"
  /\ actor \in users
  /\ professional_profiles' =
       professional_profiles \
         {obj \in ProfessionalProfileViewSet_get_queryset(actor) :
            obj.user = owner /\ IsCoachOwner(actor, obj)}
  /\ UNCHANGED <<users, athletic_profiles>>
  /\ UNCHANGED <<pc, normVars, eventVars, parseVars, coachVars,
               accountVars>>

InitSpecProfiles ==
  pc = "accounts" /\ InitNorm /\ InitEvents /\ InitParse /\ InitProfiles

NextProfiles ==
  \/ \E u \in Users : Register(u)
  \/ \E u \in Users : \E n \in Users \cup {0} : \E y \in ExperienceYears :
       CreateAthleticProfile(u, n, y)
  \/ \E u, o \in Users : \E n \in Users \cup {0} : \E y \in ExperienceYears :
       UpdateAthleticProfile(u, o, n, y)
  \/ \E u, o \in Users : DestroyAthleticProfile(u, o)
  \/ \E u \in Users : \E n \in Users \cup {0} : \E y \in ExperienceYears :
       CreateProfessionalProfile(u, n, y)
  \/ \E u, o \in Users : \E n \in Users \cup {0} : \E y \in ExperienceYears :
       UpdateProfessionalProfile(u, o, n, y)
  \/ \E u, o \in Users : DestroyProfessionalProfile(u, o)

SpecProfiles == InitSpecProfiles /\ [][NextProfiles]_vars

-----------------------------------------------------------------------------
(* Claims about profiles (under SpecProfiles).                             *)

ProfilesOf(rows, user) == {row \in rows : row.user = user}

\* C15: in every state reached by registrations and profile API operations,
\* every user has exactly one AthleticProfile and exactly one
\* ProfessionalProfile.
C15_OneProfileOfEachKind ==
  \A u \in users :
    /\ Cardinality(ProfilesOf(athletic_profiles, u)) = 1
    /\ Cardinality(ProfilesOf(professional_profiles, u)) = 1

-----------------------------------------------------------------------------
(* The per-type view sets (TrainingViewSet, RaceViewSet,                   *)
(* CustomEventViewSet): create, the update of a record's athlete, and the  *)
(* duplication of a training.                                              *)

\* The day the requests to the per-type view sets give.
RequestDay == DateV(DateLiteral["2024-05-10"])

serializer_of(kind) ==
  CASE kind = "training" -> "TrainingSerializer"
    [] kind = "race" -> "RaceSerializer"
    [] OTHER -> "CustomEventSerializer"

\* request.data of a POST to a per-type view set: the fields of the model,
\* valid but for the athlete, who is given (an id) or not (None).
model_data(kind, athlete) ==
  [event_type |-> kind,
   serializer_path |-> serializer_of(kind),
   payload |->
     CASE kind = "training" ->
            [title |-> StrV("Session"), date |-> RequestDay,
             sport |-> StrV("running"), training_data |-> EmptyDict]
       [] kind = "race" ->
            [title |-> StrV("Race"), date |-> RequestDay,
             sport |-> StrV("running")]
       [] OTHER ->
            [title |-> StrV("Camp"), date |-> RequestDay, date_end |-> None],
   athlete_id |-> athlete]

\* The serializer's `athlete` field: when given, the id of an existing user.
athlete_field_errors(athlete_id) ==
  IF athlete_id # None /\ athlete_id.n \notin Users THEN {"athlete"} ELSE {}

\* The athlete perform_create saves the record for; it raises ValueError or
\* PermissionError otherwise.
perform_create_athlete(user, athlete_id, rows) ==
  IF is_athlete(user) THEN Resolved(user)
  ELSE IF is_coach(user)
  THEN IF ~Truthy(athlete_id) THEN Refused("ValueError")
       ELSE IF athlete_id.n \notin Users THEN Refused("ValueError")
       ELSE IF athlete_id.n \notin get_by_coach(user, rows)
       THEN Refused("PermissionError")
       ELSE Resolved(athlete_id.n)
  ELSE Refused("PermissionError")

\* A response without a saved instance.
Failed(status, fields) ==
  [status |-> status, fields |-> fields, kind |-> "", athlete |-> 0,
   date |-> None, date_end |-> None, sport |-> None]

\* A response with the instance given.
Saved(status, row) ==
  [status |-> status, fields |-> {}, kind |-> row.kind,
   athlete |-> row.athlete, date |-> row.date, date_end |-> row.date_end,
   sport |-> row.sport]

perform_create_for(data, resolved) ==
  IF ~resolved.ok THEN Failed(500, resolved.fields)
  ELSE Respond(Event_save(data, resolved.athlete),
               Created(data, resolved.athlete))

\* ModelViewSet.create with the view set's perform_create.
ViewSet_create(actor, data, rows) ==
  Respond(athlete_field_errors(data.athlete_id)
            \cup model_serializer_is_valid(data),
          perform_create_for(
            data, perform_create_athlete(actor, data.athlete_id, rows)))

\* get_queryset of the three view sets: an athlete's own records, a coach's
\* assigned athletes' records.
in_queryset(actor, row, rows) ==
  IF is_athlete(actor) THEN row.athlete = actor
  ELSE IF is_coach(actor) THEN row.athlete \in get_by_coach(actor, rows)
  ELSE FALSE

\* IsOwnerOrCoach.has_object_permission on an event.
IsOwnerOrCoach(actor, obj, rows) ==
  \/ actor = obj.athlete
  \/ is_coach(actor) /\ active_assignments(rows, obj.athlete, actor) # {}

\* get_object: 0 when the record is found and permitted, else the status.
get_object_status(actor, i, rows) ==
  IF i \notin 1..Len(events) THEN 404
  ELSE IF ~in_queryset(actor, events[i], rows) THEN 404
  ELSE IF ~IsOwnerOrCoach(actor, events[i], rows) THEN 403
  ELSE 0

\* Model.save of a row whose other fields are those of a saved row.
row_save_errors(row) == IF Event_clean(row.athlete) THEN {} ELSE {"__all__"}

\* TrainingViewSet.duplicate
duplicate(actor, i, new_date, rows) ==
  IF get_object_status(actor, i, rows) # 0
  THEN Failed(get_object_status(actor, i, rows), {})
  ELSE IF events[i].kind # "training" THEN Failed(404, {})
  ELSE IF new_date.n < Today THEN Failed(400, {"new_date"})
  ELSE Respond(row_save_errors(events[i]),
               Saved(201, [events[i] EXCEPT !.date = new_date]))

\* ModelViewSet.partial_update with the athlete of the record given.
partial_update(actor, i, athlete, rows) ==
  IF get_object_status(actor, i, rows) # 0
  THEN Failed(get_object_status(actor, i, rows), {})
  ELSE Respond(athlete_field_errors(athlete)
                 \cup row_save_errors([events[i] EXCEPT !.athlete = athlete.n]),
               Saved(200, [events[i] EXCEPT !.athlete = athlete.n]))

\* POST /trainings/, /races/ or /custom-events/ by `actor`.
PerformCreate(kind, actor, athlete) ==
  /\ pc = "ownership"
  /\ request' = [actor |-> actor,
                 data |-> [type |-> StrV(kind), athlete |-> athlete],
                 path |-> "viewset"]
  /\ response' = ViewSet_create(actor, model_data(kind, athlete), assignments)
  /\ events' = IF response'.status = 201
               THEN Append(events, EventRow(response')) ELSE events
  /\ UNCHANGED <<assignments, pc>>
  /\ UNCHANGED <<normVars, parseVars, profileVars, coachVars,
               accountVars>>

\* POST /trainings/<pk>/duplicate/ by `actor`.
Duplicate(actor, i, new_date) ==
  /\ pc = "ownership"
  /\ request' = [actor |-> actor,
                 data |-> [pk |-> IntV(i), new_date |-> new_date],
                 path |-> "duplicate"]
  /\ response' = duplicate(actor, i, new_date, assignments)
  /\ events' = IF response'.status = 201
               THEN Append(events, EventRow(response')) ELSE events
  /\ UNCHANGED <<assignments, pc>>
  /\ UNCHANGED <<normVars, parseVars, profileVars, coachVars,
               accountVars>>

\* PATCH /trainings/<pk>/ (or races, custom events) by `actor`, giving the
\* athlete.
UpdateAthlete(actor, i, athlete) ==
  /\ pc = "ownership"
  /\ request' = [actor |-> actor,
                 data |-> [pk |-> IntV(i), athlete |-> athlete],
                 path |-> "update"]
  /\ response' = partial_update(actor, i, athlete, assignments)
  /\ events' = IF response'.status = 200
               THEN [events EXCEPT ![i] = EventRow(response')] ELSE events
  /\ UNCHANGED <<assignments, pc>>
  /\ UNCHANGED <<normVars, parseVars, profileVars, coachVars,
               accountVars>>

\* The requests to the unified endpoint, of every type, naming nobody, an
\* athlete or a coach.
OwnershipPayloads ==
  {("type" :> StrV(k)) @@ a @@ ("date" :> StrV("2024-05-10")) :
     k \in {"training", "race", "custom"},
     a \in OneOf("athlete", {StrV("1"), StrV("3")})}

\* The athlete a request to a view set gives: nobody, an athlete, a coach,
\* an unknown id.
AthletesGiven == {None, IntV(1), IntV(3), IntV(9)}

InitSpecOwnership ==
  pc = "ownership" /\ InitNorm /\ InitEvents /\ InitParse /\ InitProfiles

NextOwnership ==
  \/ \E m \in Mentees : \E c \in Coaches : AddCoachAccess(m, c)
  \/ \E m \in Mentees : \E c \in Coaches : RemoveCoach(m, c)
  \/ /\ Len(events) < MaxRecords
     /\ \E u \in Actors : \E data \in OwnershipPayloads : CreateEvent(u, data)
  \/ /\ Len(events) < MaxRecords
     /\ \E k \in {"training", "race", "custom"} : \E u \in Actors :
          \E a \in AthletesGiven : PerformCreate(k, u, a)
  \/ /\ Len(events) < MaxRecords
     /\ \E u \in Actors : \E i \in 1..MaxRecords :
          \E d \in {RequestDay, DateV(Today)} : Duplicate(u, i, d)
  \/ \E u \in Actors : \E i \in 1..MaxRecords :
       \E a \in AthletesGiven \ {None} : UpdateAthlete(u, i, a)

SpecOwnership == InitSpecOwnership /\ [][NextOwnership]_vars

-----------------------------------------------------------------------------
(* Claims about the owner of an event (under SpecOwnership).               *)

\* C17: every persisted Training, Race and CustomEvent belongs to one user,
\* whose user_type is athlete, whichever path created or changed it (the
\* unified endpoint, a view set's create, the duplication of a training,
\* an update) and whoever acted.
C17_EventsBelongToAthletes ==
  \A i \in 1..Len(events) :
    /\ events[i].athlete \in Users
    /\ user_type[events[i].athlete] = "athlete"

\* Witness of C17: with records persisted, the owner of a record asked to
\* hand it to a coach and was refused by Event.clean.
C17_Witness ==
  /\ pc = "ownership"
  /\ events # <<>>
  /\ request.path = "update"
  /\ request.data.athlete = IntV(3)
  /\ response.status = 400
  /\ response.fields = {"__all__"}
  /\ \E i \in 1..Len(events) : events[i].kind = "training"

-----------------------------------------------------------------------------
(* SpecStructure: a training_data structure is written section by section  *)
(* (warmup, intervals, rest_periods, cooldown), then submitted to both     *)
(* validators.                                                             *)

UnitValues ==
  {"seconds", "minutes", "hours", "meters", "kilometers", "miles", "yards"}

IntensityValues ==
  {IntV(0), IntV(100), IntV(101), IntV(150), IntV(151), IntV(0 - 1),
   FloatV(75), StrV("high")}

WarmupPhase ==
  [name |-> StrV("Warm up"), duration |-> IntV(10), unit |-> StrV("minutes")]

WarmupValues ==
  {[WarmupPhase EXCEPT !.unit = StrV(u)] : u \in UnitValues}
  \cup {WarmupPhase @@ [intensity |-> v] : v \in IntensityValues}
  \cup {[duration |-> IntV(10), unit |-> StrV("yards"),
         intensity |-> IntV(500)]}

CooldownPhase ==
  [name |-> StrV("Cool down"), duration |-> IntV(5), unit |-> StrV("minutes")]

CooldownValues ==
  {CooldownPhase,
   [CooldownPhase EXCEPT !.unit = StrV("miles")],
   CooldownPhase @@ [intensity |-> IntV(120)],
   CooldownPhase @@ [intensity |-> IntV(500)],
   [duration |-> IntV(0)]}

RestPeriod ==
  [name |-> StrV("Rest"), duration |-> IntV(60), unit |-> StrV("seconds")]

RestPeriodLists ==
  {ListV(<<r>>) :
     r \in {[RestPeriod EXCEPT !.unit = StrV(u)] :
              u \in {"seconds", "hours", "miles"}}
           \cup {RestPeriod @@ [intensity |-> v] :
                   v \in {IntV(100), IntV(101), IntV(151), StrV("high")}}
           \cup {[unit |-> StrV("yards")]}}

SimpleInterval ==
  [name |-> StrV("Tempo"), type |-> StrV("time"),
   duration_or_distance |-> FloatV(4), unit |-> StrV("minutes"),
   repetitions |-> IntV(5)]

WorkPhase ==
  [name |-> StrV("Work"), type |-> StrV("time"),
   duration_or_distance |-> FloatV(2), unit |-> StrV("minutes")]

RepeatSet(work) ==
  [name |-> StrV("Set"), repetitions |-> IntV(2),
   sub_intervals |-> ListV(<<[work |-> work]>>)]

NamelessInterval ==
  [type |-> StrV("time"), duration_or_distance |-> FloatV(4),
   unit |-> StrV("minutes"), repetitions |-> IntV(5)]

IntervalLists ==
  {ListV(<<i>>) :
     i \in {SimpleInterval,
            [SimpleInterval EXCEPT !.unit = StrV("hours")],
            [SimpleInterval EXCEPT !.unit = StrV("yards")],
            RepeatSet(WorkPhase)}
           \cup {SimpleInterval @@ [intensity |-> v] :
                   v \in {IntV(100), IntV(101), IntV(151), StrV("high")}}
           \cup {RepeatSet(WorkPhase @@ [intensity |-> v]) :
                   v \in {IntV(100), IntV(101), IntV(151)}}}
  \cup {ListV(<<NamelessInterval,
                SimpleInterval @@ [intensity |-> IntV(151)]>>),
        ListV(<<SimpleInterval, NamelessInterval>>)}

SectionValues(k) ==
  CASE k = "warmup" -> WarmupValues
    [] k = "intervals" -> IntervalLists
    [] k = "rest_periods" -> RestPeriodLists
    [] k = "cooldown" -> CooldownValues

SectionKeys == {"warmup", "intervals", "rest_periods", "cooldown"}

SetSection(k, v) ==
  /\ pc = "compose"
  /\ k \notin DOMAIN training_data
  /\ training_data' = (k :> v) @@ training_data
  /\ UNCHANGED <<blocks, model_result, serializer_result, pc>>
  /\ UNCHANGED <<eventVars, parseVars, profileVars, coachVars,
               accountVars>>

SubmitStructure ==
  /\ pc = "compose"
  /\ pc' = "ready"
  /\ UNCHANGED <<normVars, eventVars, parseVars, profileVars, coachVars,
               accountVars>>

InitStructure ==
  /\ pc = "compose"
  /\ blocks = <<>>
  /\ training_data = EmptyDict
  /\ model_result = Pending
  /\ serializer_result = NotRun
  /\ InitEvents
  /\ InitParse
  /\ InitProfiles

NextStructure ==
  \/ \E k \in SectionKeys : \E v \in SectionValues(k) : SetSection(k, v)
  \/ SubmitStructure
  \/ ModelClean
  \/ SerializerValidate

SpecStructure == InitStructure /\ [][NextStructure]_vars

-----------------------------------------------------------------------------
(* Claims about intensities, units and the errors reported (under          *)
(* SpecStructure).                                                         *)

BothRan == pc = "ready" /\ model_result # Pending /\ serializer_result.done

ItemsOf(data, key) ==
  IF key \in DOMAIN data /\ data[key].t = "list"
  THEN data[key].items ELSE <<>>

SubIntervalsOf(interval) == ItemsOf(interval, "sub_intervals")

DropIntensity(d) == [k \in DOMAIN d \ {"intensity"} |-> d[k]]

IntensityOf(d) == IF "intensity" \in DOMAIN d THEN {d["intensity"]} ELSE {}

IntervalIntensities(interval) ==
  IntensityOf(interval)
  \cup UNION {UNION {IntensityOf(SubIntervalsOf(interval)[j][k]) :
                       k \in DOMAIN SubIntervalsOf(interval)[j]} :
                j \in 1..Len(SubIntervalsOf(interval))}

\* Every intensity of the structure: of the warmup, the cooldown, the rest
\* periods, the intervals and their work and rest phases.
Intensities(data) ==
  UNION {IntensityOf(data[k]) : k \in DOMAIN data \cap {"warmup", "cooldown"}}
  \cup UNION {IntensityOf(ItemsOf(data, "rest_periods")[i]) :
                i \in 1..Len(ItemsOf(data, "rest_periods"))}
  \cup UNION {IntervalIntensities(ItemsOf(data, "intervals")[i]) :
                i \in 1..Len(ItemsOf(data, "intervals"))}

IntervalWithoutIntensity(interval) ==
  IF SubIntervalsOf(interval) = <<>> THEN DropIntensity(interval)
  ELSE [DropIntensity(interval) EXCEPT
          !["sub_intervals"] =
            ListV([j \in 1..Len(SubIntervalsOf(interval)) |->
                     [k \in DOMAIN SubIntervalsOf(interval)[j] |->
                        DropIntensity(SubIntervalsOf(interval)[j][k])]])]

\* The structure with every intensity taken out.
WithoutIntensity(data) ==
  [k \in DOMAIN data |->
     CASE k \in {"warmup", "cooldown"} -> DropIntensity(data[k])
       [] k = "rest_periods" ->
            ListV([i \in 1..Len(data[k].items) |->
                     DropIntensity(data[k].items[i])])
       [] k = "intervals" ->
            ListV([i \in 1..Len(data[k].items) |->
                     IntervalWithoutIntensity(data[k].items[i])])]

ValidButForIntensity(data) ==
  /\ Training_clean(WithoutIntensity(data)) = OK
  /\ TrainingSerializer_validate_training_data(WithoutIntensity(data)) = <<>>

NumberUpTo(v, high) == IsNumber(v) /\ 0 <= v.n /\ v.n <= high

\* C18: in a structure that is valid but for its intensities, the
\* model-level validator accepts exactly when every intensity, wherever it
\* is (warmup, cooldown, rest period, interval, work phase), is a number in
\* [0,150], and the serializer-level validator accepts exactly when every
\* intensity is a number in [0,100].
C18_IntensityRangeByPath ==
  (BothRan /\ ValidButForIntensity(training_data))
    => /\ ModelAccepted
            <=> \A v \in Intensities(training_data) : NumberUpTo(v, 150)
       /\ SerializerAccepted
            <=> \A v \in Intensities(training_data) : NumberUpTo(v, 100)

SpecUnits == {"seconds", "minutes", "hours", "meters", "kilometers"}

\* The units of the phases of the structure (warmup, cooldown, rest periods),
\* where any unit is allowed.
PhaseUnits(data) ==
  {data[k]["unit"] : k \in {j \in DOMAIN data \cap {"warmup", "cooldown"} :
                             "unit" \in DOMAIN data[j]}}
  \cup {ItemsOf(data, "rest_periods")[i]["unit"] :
          i \in {j \in 1..Len(ItemsOf(data, "rest_periods")) :
                   "unit" \in DOMAIN ItemsOf(data, "rest_periods")[j]}}

WithUnit(d, unit) ==
  IF "unit" \in DOMAIN d THEN [d EXCEPT !["unit"] = unit] ELSE d

\* The structure with the unit of every phase replaced.
WithPhaseUnits(data, unit) ==
  [k \in DOMAIN data |->
     CASE k \in {"warmup", "cooldown"} -> WithUnit(data[k], unit)
       [] k = "rest_periods" ->
            ListV([i \in 1..Len(data[k].items) |->
                     WithUnit(data[k].items[i], unit)])
       [] OTHER -> data[k]]

ValidButForUnits(data) ==
  /\ Training_clean(WithPhaseUnits(data, StrV("minutes"))) = OK
  /\ TrainingSerializer_validate_training_data(
       WithPhaseUnits(data, StrV("minutes"))) = <<>>

\* C19: in a structure that is valid but for the units of its phases, each
\* validator accepts exactly when every unit is one of seconds, minutes,
\* hours, meters, kilometers.
C19_UnitsAccepted ==
  (BothRan /\ ValidButForUnits(training_data))
    => /\ ModelAccepted
            <=> \A u \in PhaseUnits(training_data) : InStrs(u, SpecUnits)
       /\ SerializerAccepted
            <=> \A u \in PhaseUnits(training_data) : InStrs(u, SpecUnits)

\* Items that violate nothing in either validator.
AcceptedInterval ==
  [name |-> StrV("ok"), type |-> StrV("time"),
   duration_or_distance |-> IntV(1), unit |-> StrV("minutes"),
   repetitions |-> IntV(1)]

AcceptedRest ==
  [name |-> StrV("ok"), duration |-> IntV(1), unit |-> StrV("seconds")]

\* The list with every item but the i-th replaced by an accepted one.
OnlyItem(items, i, accepted) ==
  ListV([j \in 1..Len(items) |-> IF j = i THEN items[j] ELSE accepted])

\* The places of the structure in traversal order, each as a structure of
\* its own in which nothing else can be violated.
Places(data) ==
  (IF "warmup" \in DOMAIN data THEN <<[warmup |-> data["warmup"]]>> ELSE <<>>)
  \o [i \in 1..Len(ItemsOf(data, "intervals")) |->
        [intervals |->
           OnlyItem(ItemsOf(data, "intervals"), i, AcceptedInterval)]]
  \o [i \in 1..Len(ItemsOf(data, "rest_periods")) |->
        [rest_periods |->
           OnlyItem(ItemsOf(data, "rest_periods"), i, AcceptedRest)]]
  \o (IF "cooldown" \in DOMAIN data
      THEN <<[cooldown |-> data["cooldown"]]>> ELSE <<>>)

\* The places the model-level validator refuses.
ModelViolations(places) ==
  {i \in 1..Len(places) : Training_clean(places[i]) # OK}

\* The error of the first place the model-level validator refuses.
FirstViolation(places) ==
  IF ModelViolations(places) = {} THEN OK
  ELSE Training_clean(places[Min(ModelViolations(places))])

\* The entries of the serializer-level validator for every place, from the
\* i-th on.
RECURSIVE EveryViolation(_, _)
EveryViolation(places, i) ==
  IF i > Len(places) THEN <<>>
  ELSE TrainingSerializer_validate_training_data(places[i])
       \o EveryViolation(places, i + 1)

-----------------------------------------------------------------------------
(* SpecParsers: the parse functions of event_normalization applied to the  *)
(* strings a request may carry in duration, time and date.                 *)

TimeV(seconds) == [t |-> "time", n |-> seconds, s |-> ""]

\* One field of strptime's %H, %M or %S: one or two digits, at most `high`.
time_field(part, high) ==
  all_digits(part) /\ Len(part) <= 2 /\ int_of_digits(part) <= high

\* parse_time: strptime with %H:%M, then with %H:%M:%S; None when both fail.
parse_time(str) ==
  IF str = <<>> THEN None
  ELSE LET parts == split(strip(str), ":")
       IN IF Len(parts) = 2 /\ time_field(parts[1], 23)
             /\ time_field(parts[2], 59)
          THEN TimeV(int_of_digits(parts[1]) * 3600
                     + int_of_digits(parts[2]) * 60)
          ELSE IF Len(parts) = 3 /\ time_field(parts[1], 23)
                  /\ time_field(parts[2], 59) /\ time_field(parts[3], 59)
          THEN TimeV(int_of_digits(parts[1]) * 3600
                     + int_of_digits(parts[2]) * 60
                     + int_of_digits(parts[3]))
          ELSE None

\* A string, as the value it is and as its characters.
Word(text, chars) == [text |-> text, chars |-> chars]

NoWord == Word("", <<>>)

Words ==
  {NoWord,
   Word("abc", <<"a", "b", "c">>),
   Word("nan", <<"n", "a", "n">>),
   Word("inf", <<"i", "n", "f">>),
   Word("-inf", <<"-", "i", "n", "f">>),
   Word("infinity", <<"i", "n", "f", "i", "n", "i", "t", "y">>),
   Word("25:99", <<"2", "5", ":", "9", "9">>),
   Word("05:30", <<"0", "5", ":", "3", "0">>),
   Word("7:5", <<"7", ":", "5">>),
   Word(" 7:05 ", <<" ", "7", ":", "0", "5", " ">>),
   Word("24:00", <<"2", "4", ":", "0", "0">>),
   Word("00:00", <<"0", "0", ":", "0", "0">>),
   Word("12:60", <<"1", "2", ":", "6", "0">>),
   Word("1:2:3", <<"1", ":", "2", ":", "3">>),
   Word("23:59:59", <<"2", "3", ":", "5", "9", ":", "5", "9">>),
   Word("23:59:60", <<"2", "3", ":", "5", "9", ":", "6", "0">>),
   Word("45", <<"4", "5">>),
   Word("-5", <<"-", "5">>),
   Word("0", <<"0">>),
   Word("p3", <<"p", "3">>),
   Word("PT1H30M", <<"P", "T", "1", "H", "3", "0", "M">>),
   Word("2022-01-01",
        <<"2", "0", "2", "2", "-", "0", "1", "-", "0", "1">>),
   Word("2024-05-10",
        <<"2", "0", "2", "4", "-", "0", "5", "-", "1", "0">>),
   Word("2024-06-01",
        <<"2", "0", "2", "4", "-", "0", "6", "-", "0", "1">>),
   Word("2024-13-45",
        <<"2", "0", "2", "4", "-", "1", "3", "-", "4", "5">>),
   Word(":", <<":">>),
   Word("-", <<"-">>),
   Word("null", <<"n", "u", "l", "l">>)}

Parsers ==
  {"parse_minutes_duration", "parse_time", "parse_date",
   "combine_date_and_time"}

\* A request field is given the string `word`.
ChooseWord(word) ==
  /\ pc \in {"words"} \cup Parsers
  /\ value' = word
  /\ parsed' = None
  /\ pc' = "words"
  /\ UNCHANGED <<normVars, eventVars, profileVars, coachVars,
               accountVars>>

ParseDuration ==
  /\ pc \in {"words"} \cup Parsers
  /\ parsed' = parse_minutes_duration(value.chars)
  /\ pc' = "parse_minutes_duration"
  /\ UNCHANGED value
  /\ UNCHANGED <<normVars, eventVars, profileVars, coachVars,
               accountVars>>

ParseTime ==
  /\ pc \in {"words"} \cup Parsers
  /\ parsed' = parse_time(value.chars)
  /\ pc' = "parse_time"
  /\ UNCHANGED value
  /\ UNCHANGED <<normVars, eventVars, profileVars, coachVars,
               accountVars>>

ParseDate ==
  /\ pc \in {"words"} \cup Parsers
  /\ parsed' = parse_date(StrV(value.text))
  /\ pc' = "parse_date"
  /\ UNCHANGED value
  /\ UNCHANGED <<normVars, eventVars, profileVars, coachVars,
               accountVars>>

\* combine_date_and_time(value, time): the time is parsed after the date.
CombineDateAndTime(time) ==
  /\ pc \in {"words"} \cup Parsers
  /\ parsed' = IF parse_time(time.chars).t = "error"
               THEN parse_time(time.chars)
               ELSE combine_date_and_time(StrV(value.text), StrV(time.text))
  /\ pc' = "combine_date_and_time"
  /\ UNCHANGED value
  /\ UNCHANGED <<normVars, eventVars, profileVars, coachVars,
               accountVars>>

InitSpecParsers ==
  /\ pc = "words"
  /\ value = NoWord
  /\ parsed = None
  /\ InitNorm /\ InitEvents /\ InitProfiles

NextParsers ==
  \/ \E word \in Words : ChooseWord(word)
  \/ ParseDuration
  \/ ParseTime
  \/ ParseDate
  \/ \E time \in Words : CombineDateAndTime(time)

SpecParsers == InitSpecParsers /\ [][NextParsers]_vars

-----------------------------------------------------------------------------
(* Claims about the parse functions (under SpecParsers).                   *)

\* C22: parse_minutes_duration, parse_time, parse_date and
\* combine_date_and_time raise for no string: the result of each is a value
\* or None, never an exception.
C22_ParsersNeverRaise == pc \in Parsers => parsed.t # "error"

-----------------------------------------------------------------------------
(* Claims about what normalize_training_blocks keeps and drops (under      *)
(* Spec).                                                                  *)

\* The value parses to a number greater than zero.
ParsesPositive(v) ==
  \/ IsNumber(v) /\ v.n > 0
  \/ v.t = "str" /\ v.s \in DOMAIN NumericLiteral /\ NumericLiteral[v.s] > 0

\* The number a value that parses is read as.
NumberRead(v) == IF IsNumber(v) THEN v.n ELSE NumericLiteral[v.s]

Max(S) == CHOOSE x \in S : \A y \in S : x >= y

\* The blocks of the given type whose duration parses to a positive number.
ValidPhaseBlocks(kind) ==
  {i \in 1..Len(blocks) :
     block_type_of(blocks[i]) = kind
     /\ ParsesPositive(Get(blocks[i], "duration"))}

\* C23: the normalized structure has a warmup (cooldown) key exactly when
\* some warmup (cooldown) block of the input has a duration that parses to
\* a number greater than zero, and the key then holds the duration of the
\* last such block: a block whose duration is 0, negative, missing or
\* unparsable writes nothing and erases nothing.
C23_PhaseDropRule ==
  pc = "ready" =>
    \A kind \in {"warmup", "cooldown"} :
      /\ kind \in DOMAIN training_data <=> ValidPhaseBlocks(kind) # {}
      /\ ValidPhaseBlocks(kind) # {} =>
           training_data[kind]["duration"].n =
             NumberRead(blocks[Max(ValidPhaseBlocks(kind))]["duration"])

\* Witness of C23: a valid warmup block was followed by a warmup block whose
\* duration does not parse to a positive number, and the warmup of the first
\* is in the structure.
C23_Witness ==
  /\ pc = "ready"
  /\ "warmup" \in DOMAIN training_data
  /\ \E i \in ValidPhaseBlocks("warmup") :
       \E j \in (i + 1)..Len(blocks) :
         /\ block_type_of(blocks[j]) = "warmup"
         /\ j \notin ValidPhaseBlocks("warmup")

\* The interval blocks of the request and the intervals of the structure.
IntervalBlockIndexes ==
  {i \in 1..Len(blocks) : block_type_of(blocks[i]) = "interval"}

OneIntervalBlock == Cardinality(IntervalBlockIndexes) = 1

TheIntervalBlock == blocks[CHOOSE i \in IntervalBlockIndexes : TRUE]

Emitted ==
  IF "intervals" \in DOMAIN training_data
  THEN training_data["intervals"].items ELSE <<>>

\* The request has one interval block, and it has children.
OneComplexBlock ==
  /\ pc = "ready"
  /\ OneIntervalBlock
  /\ children_of(TheIntervalBlock) # <<>>

TheChildren == children_of(TheIntervalBlock)

\* The field a work child is measured by: duration for a time interval
\* (the default), the distance otherwise.
WorkValue(child) ==
  IF Get(child, "intervalType") \in {None, StrV("time")}
  THEN Get(child, "duration") ELSE Get(child, "distance")

\* The positions of the qualifying work children and of the rest children
\* with a positive duration.
WorkAt ==
  {k \in 1..Len(TheChildren) :
     block_type_of(TheChildren[k]) = "interval"
     /\ ParsesPositive(WorkValue(TheChildren[k]))}

RestAt ==
  {k \in 1..Len(TheChildren) :
     block_type_of(TheChildren[k]) = "rest"
     /\ ParsesPositive(Get(TheChildren[k], "duration"))}

\* The number of qualifying work children at or before position k.
WorkUpTo(k) == Cardinality({w \in WorkAt : w <= k})

\* C26: under a complex interval block every qualifying work child opens a
\* sub-interval, so there are as many sub-intervals as qualifying work
\* children, in their order; a rest child with a positive duration becomes
\* the rest of the sub-interval of the last qualifying work child before it,
\* and is dropped when there is none.
C26_ComplexIntervalAssembly ==
  OneComplexBlock =>
    LET subs == IF Emitted = <<>> THEN <<>>
                ELSE Emitted[1]["sub_intervals"].items
    IN /\ Len(Emitted) = (IF WorkAt = {} THEN 0 ELSE 1)
       /\ Len(subs) = Cardinality(WorkAt)
       /\ \A w \in WorkAt :
            subs[WorkUpTo(w)]["work"]["duration_or_distance"].n =
              NumberRead(WorkValue(TheChildren[w]))
       /\ \A n \in 1..Len(subs) :
            LET rests == {r \in RestAt : WorkUpTo(r) = n}
            IN /\ "rest" \in DOMAIN subs[n] <=> rests # {}
               /\ rests # {} =>
                    subs[n]["rest"]["duration"].n =
                      NumberRead(TheChildren[Max(rests)]["duration"])

\* Witness of C26: two qualifying work children and then a rest child with
\* a positive duration, which is the rest of the second sub-interval.
C26_Witness ==
  /\ OneComplexBlock
  /\ WorkAt = {1, 2}
  /\ RestAt = {3}
  /\ Len(Emitted) = 1
  /\ "rest" \in DOMAIN Emitted[1]["sub_intervals"].items[2]

\* The repetitions of a block as a positive integer, 1 when there is none.
PositiveCount(block) ==
  LET r == Get(block, "repetitions")
  IN IF r.t = "int" /\ r.n > 0 THEN r.n
     ELSE IF ParsesPositive(r) THEN NumberRead(r) ELSE 1

\* C27: an interval emitted with sub-intervals has exactly the keys name,
\* repetitions and sub_intervals, at least one sub-interval, and a positive
\* integer as repetitions; a block with children is emitted in that shape,
\* with its own repetitions or 1 when they are absent or not positive, and
\* is dropped when no child yields a sub-interval.
C27_ComplexIntervalShape ==
  /\ pc = "ready" =>
       \A i \in 1..Len(Emitted) :
         "sub_intervals" \in DOMAIN Emitted[i] =>
           /\ DOMAIN Emitted[i] = {"name", "repetitions", "sub_intervals"}
           /\ Emitted[i]["sub_intervals"].items # <<>>
           /\ Emitted[i]["repetitions"].t = "int"
           /\ Emitted[i]["repetitions"].n > 0
  /\ OneComplexBlock =>
       IF WorkAt = {} THEN Emitted = <<>>
       ELSE /\ Len(Emitted) = 1
            /\ "sub_intervals" \in DOMAIN Emitted[1]
            /\ Emitted[1]["repetitions"].n = PositiveCount(TheIntervalBlock)

\* Witness of C27: a block with children whose repetitions are not positive
\* was emitted.
C27_Witness ==
  /\ OneComplexBlock
  /\ WorkAt # {}
  /\ Get(TheIntervalBlock, "repetitions") = IntV(0)
  /\ Len(Emitted) = 1

\* The field the claims name for an interval: the distance when
\* intervalType is 'distance', the duration for every other value.
NamedValue(block) ==
  IF Get(block, "intervalType") = StrV("distance")
  THEN Get(block, "distance") ELSE Get(block, "duration")

\* C28: an interval block without children is emitted with the number of
\* its distance when intervalType is 'distance' and of its duration
\* otherwise, also when it carries both fields, and is dropped when that
\* number is not positive.
C28_SimpleIntervalValue ==
  (pc = "ready" /\ OneIntervalBlock /\ children_of(TheIntervalBlock) = <<>>)
    => IF ParsesPositive(NamedValue(TheIntervalBlock))
       THEN /\ Len(Emitted) = 1
            /\ Emitted[1]["duration_or_distance"].n =
                 NumberRead(NamedValue(TheIntervalBlock))
       ELSE Emitted = <<>>

\* C29: the work phase of a child interval has the number of the child's
\* distance exactly when intervalType is 'distance' and of its duration for
\* every other value (absent, 'time', unrecognised); the child is skipped
\* when that number is not positive.
C29_ChildIntervalValue ==
  (OneComplexBlock /\ Len(TheChildren) = 1
   /\ block_type_of(TheChildren[1]) = "interval")
    => IF ParsesPositive(NamedValue(TheChildren[1]))
       THEN /\ Len(Emitted) = 1
            /\ Emitted[1]["sub_intervals"].items[1]["work"]
                 ["duration_or_distance"].n =
                 NumberRead(NamedValue(TheChildren[1]))
       ELSE Emitted = <<>>

-----------------------------------------------------------------------------
(* The year of achievements, certifications and coach achievements:        *)
(* accounts/models.py (Achievement, Certification, CoachAchievement) and   *)
(* their serializers and viewsets.  pc = "years".                          *)

\* The lower limit of the three clean methods.
MinYear == 1900

Kinds == {"achievement", "certification", "coach_achievement"}

\* The years given: None, integers around both limits.
YearInputs ==
  {None, IntV(0 - 1), IntV(0), IntV(MinYear - 1), IntV(MinYear),
   IntV(MinYear + 1), IntV(StartYear - 1), IntV(StartYear),
   IntV(StartYear + 1), IntV(StartYear + 2)}

\* PositiveIntegerField of the model (null=False, MinValueValidator(0)) and
\* the IntegerField the ModelSerializer builds from it.
year_field_errors(year) == year = None \/ year.n < 0

\* The comparisons of a clean method: None against an int is a TypeError.
year_clean(year, now, lowest) ==
  IF year = None THEN "TypeError"
  ELSE IF year.n > now THEN "ValidationError"
  ELSE IF year.n < lowest THEN "ValidationError"
  ELSE "ok"

\* Mutant of Certification_clean: the lower limit is not checked.
Certification_clean_no_floor(year, now) == year_clean(year, now, 0)

Achievement_clean(year, now) == year_clean(year, now, MinYear)

Certification_clean(year, now) == year_clean(year, now, MinYear)

CoachAchievement_clean(year, now) == year_clean(year, now, MinYear)

Model_clean(kind, year, now) ==
  CASE kind = "achievement" -> Achievement_clean(year, now)
    [] kind = "certification" -> Certification_clean(year, now)
    [] OTHER -> CoachAchievement_clean(year, now)

\* save(): full_clean() runs clean_fields and then clean, also when
\* clean_fields has failed, and raises when either has; only then the row is
\* written.  The outcome: "saved" or the exception.
Model_save(kind, year, now) ==
  LET cleaned == Model_clean(kind, year, now)
  IN IF cleaned = "TypeError" THEN "TypeError"
     ELSE IF year_field_errors(year) \/ cleaned # "ok" THEN "ValidationError"
     ELSE "saved"

\* AchievementSerializer.validate_year, on the integer the field returns.
validate_year(year, now) ==
  IF year = None THEN "ok"
  ELSE IF year.n > now THEN "ValidationError"
  ELSE IF year.n < MinYear THEN "ValidationError"
  ELSE "ok"

\* serializer.is_valid(): the field, and validate_year where there is one.
year_is_valid(kind, year, now) ==
  /\ ~year_field_errors(year)
  /\ kind = "achievement" => validate_year(year, now) = "ok"

\* create / update of the three viewsets: 400 from the serializer; otherwise
\* serializer.save(), whose exception is not answered by the view.
write_status(kind, year, now, success) ==
  IF ~year_is_valid(kind, year, now) THEN 400
  ELSE IF Model_save(kind, year, now) = "saved" THEN success ELSE 500

YearRequest(kind, year, path) ==
  [actor |-> 0, path |-> path,
   data |-> [kind |-> kind, year |-> year, received |-> current_year]]

YearResponse(status, outcome) ==
  [NoResponse EXCEPT !.status = status, !.kind = outcome]

\* Achievement(...).save() and the like, without a serializer.
SaveRecord(kind, year) ==
  /\ pc = "years"
  /\ request' = YearRequest(kind, year, "save")
  /\ response' = YearResponse(0, Model_save(kind, year, current_year))
  /\ achievements' =
       IF response'.kind = "saved"
       THEN achievements \cup {[kind |-> kind, year |-> year.n]}
       ELSE achievements
  /\ UNCHANGED <<pc, current_year, email_tasks>>
  /\ UNCHANGED <<normVars, parseVars, profileVars, coachVars>>
  /\ UNCHANGED <<assignments, events>>

\* POST to one of the three viewsets.
PostRecord(kind, year) ==
  /\ pc = "years"
  /\ request' = YearRequest(kind, year, "create")
  /\ response' =
       LET status == write_status(kind, year, current_year, 201)
       IN YearResponse(status, IF status = 201 THEN "saved" ELSE "error")
  /\ achievements' =
       IF response'.status = 201
       THEN achievements \cup {[kind |-> kind, year |-> year.n]}
       ELSE achievements
  /\ UNCHANGED <<pc, current_year, email_tasks>>
  /\ UNCHANGED <<normVars, parseVars, profileVars, coachVars>>
  /\ UNCHANGED <<assignments, events>>

\* PATCH of the year of a row.
PatchRecord(row, year) ==
  /\ pc = "years"
  /\ row \in achievements
  /\ request' = YearRequest(row.kind, year, "update")
  /\ response' =
       LET status == write_status(row.kind, year, current_year, 200)
       IN YearResponse(status, IF status = 200 THEN "saved" ELSE "error")
  /\ achievements' =
       IF response'.status = 200
       THEN (achievements \ {row}) \cup {[kind |-> row.kind, year |-> year.n]}
       ELSE achievements
  /\ UNCHANGED <<pc, current_year, email_tasks>>
  /\ UNCHANGED <<normVars, parseVars, profileVars, coachVars>>
  /\ UNCHANGED <<assignments, events>>

\* The clock passes into the next year.
NewYear ==
  /\ pc = "years"
  /\ current_year < StartYear + MaxYears
  /\ current_year' = current_year + 1
  /\ UNCHANGED <<pc, achievements, email_tasks>>
  /\ UNCHANGED <<normVars, eventVars, parseVars, profileVars, coachVars>>

InitSpecYears ==
  pc = "years" /\ InitNorm /\ InitEvents /\ InitParse /\ InitProfiles

NextYears ==
  \/ /\ Cardinality(achievements) < MaxAchievements
     /\ \E kind \in Kinds : \E year \in YearInputs : SaveRecord(kind, year)
  \/ /\ Cardinality(achievements) < MaxAchievements
     /\ \E kind \in Kinds : \E year \in YearInputs : PostRecord(kind, year)
  \/ \E row \in achievements : \E year \in YearInputs : PatchRecord(row, year)
  \/ NewYear

SpecYears == InitSpecYears /\ [][NextYears]_vars

\* The year is an integer from 1900 to the year of the clock.
YearInRange(year, now) == year.t = "int" /\ 1900 <= year.n /\ year.n <= now

-----------------------------------------------------------------------------
(* Account actions and their background email: accounts/email_utils.py and *)
(* UserViewSet.register, request_password_reset.  A request thread runs    *)
(* beside the threads of _email_executor; pc = "email".  At most MaxEmails *)
(* tasks are submitted, fewer than the three workers of the executor, so   *)
(* no task waits for a worker.                                             *)

\* The accounts registered and asked about.
Registrants == {1, 2}

\* How send_mail ends: the mail is sent, send_mail raises, or the
\* connection times out (which raises as well).
Deliveries == {"sent", "failed", "timeout"}

\* Mutant of send_email_task: no try / except around the sending.
send_email_task_uncaught(delivery) ==
  IF delivery = "sent" THEN "success" ELSE "raised"

\* send_email_task: every Exception is caught and logged.
send_email_task(delivery) ==
  IF delivery = "sent" THEN "success" ELSE "logged"

\* send_email_async: the task is submitted to the executor.
send_email_async(tasks, subject, recipient) ==
  Append(tasks, [subject |-> subject, to |-> recipient, state |-> "queued"])

\* A request is between its submit and its response.
InFlight == request.path \in {"register", "reset"} /\ response = NoResponse

AccountResponse(status, user) ==
  [NoResponse EXCEPT !.status = status, !.athlete = user]

\* register up to send_welcome_email: a request that is not valid (here: the
\* username is taken) is answered with 400 at once; otherwise the user is
\* saved, with the profiles post_save creates, and the email submitted.
RegisterSubmit(user) ==
  /\ pc = "email"
  /\ ~InFlight
  /\ request' = [actor |-> user, path |-> "register",
                 data |-> [is_valid |-> user \notin users]]
  /\ IF user \in users
     THEN /\ response' = AccountResponse(400, 0)
          /\ UNCHANGED <<users, athletic_profiles, professional_profiles,
                         email_tasks>>
     ELSE /\ response' = NoResponse
          /\ users' = users \cup {user}
          /\ athletic_profiles' =
               get_or_create(athletic_profiles, user, IntV(0))
          /\ professional_profiles' =
               get_or_create(professional_profiles, user, None)
          /\ email_tasks' = send_email_async(email_tasks, "welcome", user)
  /\ UNCHANGED <<pc, achievements, current_year>>
  /\ UNCHANGED <<normVars, parseVars, coachVars, assignments, events>>

\* register from there: the 201 response.
RegisterRespond ==
  /\ pc = "email"
  /\ InFlight
  /\ request.path = "register"
  /\ response' = AccountResponse(201, request.actor)
  /\ UNCHANGED <<pc, request, assignments, events>>
  /\ UNCHANGED <<normVars, parseVars, profileVars, coachVars, accountVars>>

\* request_password_reset up to send_password_reset_email; user 0 stands for
\* a request without email, answered with 400.
ResetSubmit(user) ==
  /\ pc = "email"
  /\ ~InFlight
  /\ request' = [actor |-> user, data |-> EmptyDict, path |-> "reset"]
  /\ IF user = 0
     THEN response' = AccountResponse(400, 0) /\ UNCHANGED email_tasks
     ELSE IF user \notin users
     THEN response' = AccountResponse(200, 0) /\ UNCHANGED email_tasks
     ELSE /\ response' = NoResponse
          /\ email_tasks' = send_email_async(email_tasks, "reset", user)
  /\ UNCHANGED <<pc, achievements, current_year>>
  /\ UNCHANGED <<normVars, parseVars, profileVars, coachVars>>
  /\ UNCHANGED <<assignments, events>>

\* request_password_reset from there: the success response.
ResetRespond ==
  /\ pc = "email"
  /\ InFlight
  /\ request.path = "reset"
  /\ response' = AccountResponse(200, 0)
  /\ UNCHANGED <<pc, request, assignments, events>>
  /\ UNCHANGED <<normVars, parseVars, profileVars, coachVars, accountVars>>

\* A worker of the executor takes a task.
TaskStart(i) ==
  /\ pc = "email"
  /\ email_tasks[i].state = "queued"
  /\ email_tasks' = [email_tasks EXCEPT ![i].state = "running"]
  /\ UNCHANGED <<pc, achievements, current_year>>
  /\ UNCHANGED <<normVars, eventVars, parseVars, profileVars, coachVars>>

\* The task runs to its end.
TaskRun(i, delivery) ==
  /\ pc = "email"
  /\ email_tasks[i].state = "running"
  /\ email_tasks' = [email_tasks EXCEPT ![i].state = send_email_task(delivery)]
  /\ UNCHANGED <<pc, achievements, current_year>>
  /\ UNCHANGED <<normVars, eventVars, parseVars, profileVars, coachVars>>

InitSpecEmail ==
  pc = "email" /\ InitNorm /\ InitEvents /\ InitParse /\ InitProfiles

NextEmail ==
  \/ /\ Len(email_tasks) < MaxEmails
     /\ \E user \in Registrants : RegisterSubmit(user)
  \/ RegisterRespond
  \/ /\ Len(email_tasks) < MaxEmails
     /\ \E user \in Registrants \cup {0} : ResetSubmit(user)
  \/ ResetRespond
  \/ \E i \in 1..Len(email_tasks) : TaskStart(i)
  \/ \E i \in 1..Len(email_tasks) : \E delivery \in Deliveries :
       TaskRun(i, delivery)

SpecEmail == InitSpecEmail /\ [][NextEmail]_vars

\* A step of an email task, as opposed to a step of a request.
EmailStep ==
  /\ Len(email_tasks') = Len(email_tasks)
  /\ email_tasks' # email_tasks

\* The response an account request gets when the email is left aside.
AnswerOf(req) ==
  CASE req.path = "register" ->
         IF req.data.is_valid THEN AccountResponse(201, req.actor)
         ELSE AccountResponse(400, 0)
    [] req.actor = 0 -> AccountResponse(400, 0)
    [] OTHER -> AccountResponse(200, 0)

\* C25: a step of an email task, whether the email is sent, fails or times
\* out, changes neither the users nor the request being served nor a
\* response; the response of a registration or a reset request is the same
\* whatever the tasks have done by then, and the user it created is
\* persisted and stays so; no failure leaves an email task.
C25_EmailNeverDecides ==
  [][/\ EmailStep =>
          /\ UNCHANGED <<users, request, response>>
          /\ UNCHANGED <<athletic_profiles, professional_profiles>>
     /\ (response' # response /\ response' # NoResponse) =>
          /\ response' = AnswerOf(request')
          /\ response'.status = 201 => request'.actor \in users'
     /\ users \subseteq users'
     /\ \A i \in 1..Len(email_tasks') :
          email_tasks'[i].state \in {"queued", "running", "success", "logged"}
    ]_vars

\* Witness of C25: the welcome email of a user failed before the
\* registration was answered, and the answer is the 201 for that user.
C25_Witness ==
  /\ pc = "email"
  /\ request.path = "register"
  /\ response = AccountResponse(201, request.actor)
  /\ request.actor \in users
  /\ email_tasks # <<>>
  /\ email_tasks[Len(email_tasks)] =
       [subject |-> "welcome", to |-> request.actor, state |-> "logged"]

-----------------------------------------------------------------------------
(* Access of a coach after remove_coach_access: UserViewSet.               *)
(* remove_coach_access, User.remove_coach, EventViewSet.create and         *)
(* EventViewSet.calendar.  pc = "access".                                  *)

\* The ids a remove_coach_access request carries: 0 for none, 9 for an id
\* of no user.
IdsGiven == {0, 1, 3, 9}

\* The count User.remove_coach returns: the active assignments of the pair.
removed_count(table, mentee, coach) ==
  LET rows == active_assignments(table, mentee, coach)
  IN IF rows = {} THEN 0
     ELSE table[CHOOSE r \in rows : TRUE] * Cardinality(rows)

\* UserViewSet.remove_coach_access by `actor`: the status, and the pair
\* whose active assignments are deleted (<<0, 0>> for none).
remove_coach_access(actor, athlete_id, coach_id, table) ==
  IF athlete_id = 0 /\ coach_id = 0 THEN [status |-> 400, pair |-> <<0, 0>>]
  ELSE IF is_coach(actor)
  THEN IF athlete_id = 0 THEN [status |-> 400, pair |-> <<0, 0>>]
       ELSE IF athlete_id \notin Users THEN [status |-> 404, pair |-> <<0, 0>>]
       ELSE IF removed_count(table, athlete_id, actor) > 0
       THEN [status |-> 200, pair |-> <<athlete_id, actor>>]
       ELSE [status |-> 404, pair |-> <<0, 0>>]
  ELSE IF is_athlete(actor)
  THEN IF coach_id = 0 THEN [status |-> 400, pair |-> <<0, 0>>]
       ELSE IF coach_id \notin Users THEN [status |-> 404, pair |-> <<0, 0>>]
       ELSE IF removed_count(table, actor, coach_id) > 0
       THEN [status |-> 200, pair |-> <<actor, coach_id>>]
       ELSE [status |-> 404, pair |-> <<0, 0>>]
  ELSE [status |-> 403, pair |-> <<0, 0>>]

\* POST /users/remove-coach-access/ by `actor`.
RemoveCoachAccess(actor, athlete_id, coach_id) ==
  /\ pc = "access"
  /\ request' = [actor |-> actor, path |-> "remove-coach-access",
                 data |-> [athlete_id |-> athlete_id, coach_id |-> coach_id]]
  /\ response' =
       [NoResponse EXCEPT
          !.status = remove_coach_access(actor, athlete_id, coach_id,
                                         assignments).status]
  /\ assignments' =
       LET pair == remove_coach_access(actor, athlete_id, coach_id,
                                       assignments).pair
       IN Delete(assignments,
                 active_assignments(assignments, pair[1], pair[2]))
  /\ UNCHANGED <<events, pc>>
  /\ UNCHANGED <<normVars, parseVars, profileVars, coachVars, accountVars>>

\* Mutant of calendar: a coach is shown the events of every athlete.
calendar_of_everyone(user, rows, evs) ==
  IF is_athlete(user) THEN SelectSeq(evs, LAMBDA e : e.athlete = user)
  ELSE evs

\* EventViewSet.calendar without date filters: the events listed, which
\* the view then sorts by date.
calendar(user, rows, evs) ==
  IF is_athlete(user) THEN SelectSeq(evs, LAMBDA e : e.athlete = user)
  ELSE IF is_coach(user)
  THEN SelectSeq(evs, LAMBDA e : e.athlete \in get_by_coach(user, rows))
  ELSE <<>>

\* GET /events/calendar/ by `actor`.
Calendar(actor) ==
  /\ pc = "access"
  /\ request' = [actor |-> actor, data |-> EmptyDict, path |-> "calendar"]
  /\ response' =
       ("listed" :> calendar(actor, assignments, events))
       @@ [NoResponse EXCEPT !.status = 200]
  /\ UNCHANGED <<assignments, events, pc>>
  /\ UNCHANGED <<normVars, parseVars, profileVars, coachVars, accountVars>>

\* Requests for a training or a custom event on one day, naming athlete 1,
\* a user that does not exist, athlete 2 by athleteId, or nobody.
AccessPayloads ==
  {p \in AthletePayloads :
     /\ p["type"] \in {StrV("training"), StrV("custom")}
     /\ "date" \in DOMAIN p /\ p["date"] = StrV("2024-05-10")
     /\ "trainingBlocks" \notin DOMAIN p}

InitSpecAccess ==
  pc = "access" /\ InitNorm /\ InitEvents /\ InitParse /\ InitProfiles

NextAccess ==
  \/ \E m \in Mentees : \E c \in Coaches : AddCoachAccess(m, c)
  \/ \E u \in Actors : \E a, c \in IdsGiven : RemoveCoachAccess(u, a, c)
  \/ /\ Len(events) < MaxRecords
     /\ \E u \in Actors : \E data \in AccessPayloads : CreateEvent(u, data)
  \/ \E u \in Actors : Calendar(u)

SpecAccess == InitSpecAccess /\ [][NextAccess]_vars

\* The coach has no active assignment to the athlete.
NoAccess(mentee, coach) == active_assignments(assignments, mentee, coach) = {}

\* The request names the athlete, by athlete or, without it, by athleteId.
NamesAthlete(data, athlete) ==
  IF "athlete" \in DOMAIN data THEN data["athlete"] = StrV(ToString(athlete))
  ELSE "athleteId" \in DOMAIN data
       /\ data["athleteId"] = StrV(ToString(athlete))

\* The step serves a request.
Served == <<request, response, events>>' # <<request, response, events>>

====
